---- MODULE Spec2Model ----
(***************************************************************************)
(* A model of the core of accord: the Case algebra and the Reducer         *)
(* registry (base/case.py, components/reducer.py), the GenericTree builder *)
(* (transforms/generic.py), BeamSearch and its sorter (components/         *)
(* search.py, components/sorter.py), the RelationalTransform and the       *)
(* ForestTransform (transforms/relational.py, transforms/forest.py) and    *)
(* the relational Generate command (commands/generate/relational.py).      *)
(***************************************************************************)
EXTENDS Integers, Sequences, FiniteSets, TLC

VARIABLES
    permutations,   \* Reducer.permutations: registered case-link -> Reduction
    returned,       \* what the last Reducer, RelationalTransform or Generate call
                    \* returned, or the error it raised
    case_links,     \* GenericTreeTransform: the case-link sequence of the last call
    built,          \* GenericTreeTransform: what that call returned or raised
    beam_search,    \* the BeamSearch object: ConceptNet rows, method, protocol, top_k,
                    \* and its sorter where the sorter's calls are followed
    search_call,    \* the arguments of the BeamSearch call being consumed, or NoCall
    search_outcome, \* what that call yielded, or the error that ended it
    relation_types, \* Reducer.relation_types: the types of the loaded relations
    reducer_call,   \* the arguments of the template-level Reducer call, of the
                    \* RelationalTransform call or of the Generate run, or None
    forest_transform,   \* the ForestTransform object: its reducer and protocol
    data_id_counter,    \* ForestTransform.data_id_counter
    forest,             \* the InstantiationForest of the ForestTransform call
    transform_call,     \* where the ForestTransform call is in its loops, or None
    anti_factual_call,  \* the arguments of an _all_anti_factual_ids call, or None
    anti_factual_lists  \* the lists that call yielded, in order

vars == <<permutations, returned, case_links, built,
          beam_search, search_call, search_outcome,
          relation_types, reducer_call,
          forest_transform, data_id_counter, forest, transform_call,
          anti_factual_call, anti_factual_lists>>
reducerVars == <<permutations, returned>>
genericVars == <<case_links, built>>
searchVars == <<beam_search, search_call, search_outcome>>
templateVars == <<relation_types, reducer_call>>
forestVars == <<forest_transform, data_id_counter, forest, transform_call>>
antiFactualVars == <<anti_factual_call, anti_factual_lists>>

(***************************************************************************)
(* Bounds of the model.                                                    *)
(***************************************************************************)
\* The Reducer holds at most this many registered case-links.
MaxRegistered == 2
\* A GenericTreeTransform call receives at most this many case-links.
MaxCaseLinks == 2
\* The ConceptNet frames hold at most this many rows, all together.
MaxAssertions == 3
\* BeamSearch.top_k is at most this (0 keeps every candidate).
MaxTopK == 1

(***************************************************************************)
(* base/case.py, base/relation.py                                          *)
(***************************************************************************)
\* RelationType values (base/relation.py: RelationType = str).
RelationTypes == {"r1", "r2"}

\* The five permutation cases.
Case == {"ZERO", "ONE", "TWO", "THREE", "FOUR"}

\* Case.equivalent that sends ONE to FOUR but leaves FOUR where it is (a
\* plausible slip).
equivalent_case_one_way(c) == IF c = "ONE" THEN "FOUR" ELSE c

\* Case.equivalent
equivalent_case(c) ==
    IF c = "ONE" THEN "FOUR"
    ELSE IF c = "ZERO" \/ c = "TWO" \/ c = "THREE" THEN c
    ELSE "ONE"

\* RelationalCaseLink values.
RelationalCaseLink == [r1_type : RelationTypes, r2_type : RelationTypes, case : Case]

\* RelationalCaseLink.equivalent
equivalent(cl) ==
    [r1_type |-> cl.r2_type, r2_type |-> cl.r1_type, case |-> equivalent_case(cl.case)]

(***************************************************************************)
(* components/reducer.py                                                   *)
(***************************************************************************)
ReductionOrder == {"MAINTAIN", "REVERSE"}

\* ReductionOrder.__invert__
invert_order(o) == IF o = "MAINTAIN" THEN "REVERSE" ELSE "MAINTAIN"

Reduction == [relation_type : RelationTypes, order : ReductionOrder]

\* Reduction.__invert__
invert(red) == [relation_type |-> red.relation_type, order |-> invert_order(red.order)]

\* The absent result of a call (Python None), a record like every other result.
None == [tag |-> "None"]

\* The error raised by a call.
ValueError == [tag |-> "ValueError"]

\* No ForestTransform has been constructed.
NoForestTransform ==
    /\ forest_transform = None
    /\ data_id_counter = 0
    /\ forest = None
    /\ transform_call = None
    /\ anti_factual_call = None
    /\ anti_factual_lists = << >>

\* Reducer.register that only looks for the exact key (a plausible slip).
register_exact_only(perms, case_link, reduction, raise_) ==
    IF case_link \in DOMAIN perms
    THEN [permutations |-> perms, raised |-> raise_]
    ELSE [permutations |-> [k \in DOMAIN perms \cup {case_link} |->
                               IF k = case_link THEN reduction ELSE perms[k]],
          raised |-> FALSE]

\* Reducer.register that lets the later registration win (a plausible slip).
register_overwrite(perms, case_link, reduction, raise_) ==
    LET equiv == equivalent(case_link) IN
    IF (case_link \in DOMAIN perms \/ equiv \in DOMAIN perms) /\ raise_
    THEN [permutations |-> perms, raised |-> TRUE]
    ELSE [permutations |-> [k \in (DOMAIN perms \ {equiv}) \cup {case_link} |->
                               IF k = case_link THEN reduction ELSE perms[k]],
          raised |-> FALSE]

\* Reducer.register: the registry after the call, and whether it raised.
register(perms, case_link, reduction, raise_) ==
    LET equiv == equivalent(case_link) IN
    IF case_link \in DOMAIN perms \/ equiv \in DOMAIN perms
    THEN [permutations |-> perms, raised |-> raise_]
    ELSE [permutations |-> [k \in DOMAIN perms \cup {case_link} |->
                               IF k = case_link THEN reduction ELSE perms[k]],
          raised |-> FALSE]

\* Reducer.reduce_case_link that forgets to invert the equivalent's reduction.
reduce_case_link_no_invert(perms, case_link) ==
    LET equiv == equivalent(case_link) IN
    IF case_link \in DOMAIN perms THEN perms[case_link]
    ELSE IF equiv \in DOMAIN perms THEN perms[equiv]
    ELSE None

\* Reducer.reduce_case_link
reduce_case_link(perms, case_link) ==
    LET equiv == equivalent(case_link) IN
    IF case_link \in DOMAIN perms THEN perms[case_link]
    ELSE IF equiv \in DOMAIN perms THEN invert(perms[equiv])
    ELSE None

\* Reducer.__init__: an empty registry (a function with an empty domain).
EmptyPermutations == [k \in {} |-> None]

(***************************************************************************)
(* The Reducer as a state machine: register and reduce_case_link calls.    *)
(***************************************************************************)
InitReducer ==
    /\ permutations = EmptyPermutations
    /\ returned = None
    /\ case_links = << >>
    /\ built = None
    /\ beam_search = None
    /\ search_call = None
    /\ search_outcome = None
    /\ relation_types = RelationTypes
    /\ reducer_call = None
    /\ NoForestTransform

\* One call of Reducer.register(case_link, reduction, raise_): it returns
\* nothing, or raises ValueError.
Register(case_link, reduction, raise_) ==
    LET r == register(permutations, case_link, reduction, raise_) IN
    /\ Cardinality(DOMAIN r.permutations) <= MaxRegistered
    /\ permutations' = r.permutations
    /\ returned' = IF r.raised THEN ValueError ELSE None
    /\ UNCHANGED <<genericVars, searchVars, templateVars,
                 forestVars, antiFactualVars>>

\* One call of Reducer.reduce_case_link(case_link).
ReduceCaseLink(case_link) ==
    /\ returned' = reduce_case_link(permutations, case_link)
    /\ UNCHANGED <<permutations, genericVars, searchVars, templateVars,
                 forestVars, antiFactualVars>>

RegisterStep ==
    \E cl \in RelationalCaseLink, red \in Reduction, raise_ \in BOOLEAN :
        Register(cl, red, raise_)

ReduceCaseLinkStep == \E cl \in RelationalCaseLink : ReduceCaseLink(cl)

NextReducer == RegisterStep \/ ReduceCaseLinkStep

SpecReducer == InitReducer /\ [][NextReducer]_vars

(***************************************************************************)
(* transforms/generic.py: the GenericTree builder.                         *)
(***************************************************************************)
\* RelationId values (base/relation.py: RelationId = str).
RelationIds == {"x1", "x2", "x3"}

\* GenericCaseLink values.
GenericCaseLink == [r1_id : RelationIds, r2_id : RelationIds, case : Case]

\* GenericVariable.parent when the variable has no parent (Python None).
\* A GenericVariable "V<k>" is modelled by its number k >= 0.
NoParent == -1

\* The relation ids of a sequence of GenericTemplates.
relation_ids(templates) == {templates[k].relation_id : k \in 1..Len(templates)}

\* One "if r_id not in templates" step of _create_templates: the variable
\* counter stands at twice the number of templates created so far.
add_template(templates, r_id) ==
    IF r_id \in relation_ids(templates) THEN templates
    ELSE Append(templates, [source |-> 2 * Len(templates),
                            relation_id |-> r_id,
                            target |-> 2 * Len(templates) + 1])

RECURSIVE create_templates_from(_, _, _)
create_templates_from(links, i, templates) ==
    IF i > Len(links) THEN templates
    ELSE create_templates_from(links, i + 1,
             add_template(add_template(templates, links[i].r1_id), links[i].r2_id))

\* GenericTreeTransform._create_templates: one template per distinct relation
\* id, in the order of first appearance (the dict's insertion order).
create_templates(links) == create_templates_from(links, 1, << >>)

\* self.templates[r_id]
template_of(templates, r_id) ==
    templates[CHOOSE k \in 1..Len(templates) : templates[k].relation_id = r_id]

\* The GenericVariables of a sequence of templates.
variables_of(templates) ==
    UNION {{templates[k].source, templates[k].target} : k \in 1..Len(templates)}

\* The (main_var, linked_var) pair a non-ZERO case-link selects.
link_pair(templates, case_link) ==
    LET main_template == template_of(templates, case_link.r1_id)
        linked_template == template_of(templates, case_link.r2_id) IN
    IF case_link.case = "ONE" THEN <<main_template.target, linked_template.source>>
    ELSE IF case_link.case = "TWO" THEN <<main_template.target, linked_template.target>>
    ELSE IF case_link.case = "THREE" THEN <<main_template.source, linked_template.source>>
    ELSE <<main_template.source, linked_template.target>>

\* _do_link_variables that overwrites an existing parent instead of raising.
do_link_variables_overwrite(templates, b, case_link) ==
    IF case_link.case = "ZERO" THEN b
    ELSE LET pair == link_pair(templates, case_link) IN
         [parent |-> [b.parent EXCEPT ![pair[2]] = pair[1]],
          has_children |-> b.has_children \cup {pair[1]},
          error |-> FALSE]

\* GenericTreeTransform._do_link_variables on the builder's variables b:
\* their parents, the ones with children, and whether ValueError was raised.
do_link_variables(templates, b, case_link) ==
    IF case_link.case = "ZERO" THEN b
    ELSE LET pair == link_pair(templates, case_link) IN
         IF b.parent[pair[2]] = NoParent
         THEN [parent |-> [b.parent EXCEPT ![pair[2]] = pair[1]],
               has_children |-> b.has_children \cup {pair[1]},
               error |-> FALSE]
         ELSE [parent |-> b.parent,
               has_children |-> b.has_children \cup {pair[1]},
               error |-> TRUE]

RECURSIVE link_variables_from(_, _, _, _)
link_variables_from(templates, links, i, b) ==
    IF i > Len(links) \/ b.error THEN b
    ELSE link_variables_from(templates, links, i + 1,
                             do_link_variables(templates, b, links[i]))

\* GenericTreeTransform._link_variables: the links in order, up to the first
\* ValueError.
link_variables(templates, links) ==
    link_variables_from(templates, links, 1,
        [parent |-> [v \in variables_of(templates) |-> NoParent],
         has_children |-> {},
         error |-> FALSE])

\* GenericTreeTransform._resolve_parent, with the frames the interpreter still
\* grants: the recursion ends at a variable without parent, or exhausts the
\* frames (RecursionError) when the parents form a cycle.
RECURSIVE resolve_parent(_, _, _)
resolve_parent(parent, variable, frames) ==
    IF parent[variable] = NoParent
    THEN [parent |-> parent, root |-> variable, error |-> FALSE]
    ELSE IF frames = 0
    THEN [parent |-> parent, root |-> variable, error |-> TRUE]
    ELSE LET r == resolve_parent(parent, parent[variable], frames - 1) IN
         IF r.error THEN r
         ELSE [parent |-> [r.parent EXCEPT ![variable] = r.root],
               root |-> r.root, error |-> FALSE]

RECURSIVE resolve_parents_from(_, _, _)
resolve_parents_from(templates, i, r) ==
    IF i > Len(templates) \/ r.error THEN r
    ELSE LET frames == Cardinality(DOMAIN r.parent)
             s == resolve_parent(r.parent, templates[i].source, frames)
             t == IF s.error THEN s
                  ELSE resolve_parent(s.parent, templates[i].target, frames) IN
         resolve_parents_from(templates, i + 1, t)

\* GenericTreeTransform._resolve_parents: every template's source, then its
\* target. A chain of parents longer than the number of variables is a cycle,
\* on which the recursion never returns.
resolve_parents(templates, parent) ==
    resolve_parents_from(templates, 1,
        [parent |-> parent, root |-> NoParent, error |-> FALSE])

\* The edges _is_valid adds to its nx.Graph: a simple graph, in which an edge
\* added twice is one edge.
graph_edges(templates, parent) ==
    UNION {{{templates[k].source, templates[k].target}}
              \cup (IF parent[templates[k].source] # NoParent
                    THEN {{templates[k].source, parent[templates[k].source]}}
                    ELSE {})
              \cup (IF parent[templates[k].target] # NoParent
                    THEN {{templates[k].target, parent[templates[k].target]}}
                    ELSE {}) : k \in 1..Len(templates)}

\* The nodes reachable from the set seen along the edges.
RECURSIVE reachable(_, _)
reachable(seen, edges) ==
    LET more == seen \cup UNION {e \in edges : e \cap seen # {}} IN
    IF more = seen THEN seen ELSE reachable(more, edges)

\* nx.is_tree on an undirected graph with at least one node: one edge less
\* than nodes, and connected.
is_tree(nodes, edges) ==
    /\ Cardinality(nodes) - 1 = Cardinality(edges)
    /\ reachable({CHOOSE n \in nodes : TRUE}, edges) = nodes

\* GenericTreeTransform._is_valid
is_valid(templates, parent) ==
    LET edges == graph_edges(templates, parent) IN
    is_tree(UNION edges, edges)

\* _cleanup that keeps the templates' own variables (a plausible slip).
cleanup_no_rewrite(templates, parent) == templates

\* GenericTreeTransform._cleanup: every endpoint replaced by its parent.
cleanup(templates, parent) ==
    [k \in 1..Len(templates) |->
        [source |-> IF parent[templates[k].source] # NoParent
                    THEN parent[templates[k].source] ELSE templates[k].source,
         relation_id |-> templates[k].relation_id,
         target |-> IF parent[templates[k].target] # NoParent
                    THEN parent[templates[k].target] ELSE templates[k].target]]

\* The error of a recursion that never returns.
RecursionError == [tag |-> "RecursionError"]

\* GenericTreeTransform.__call__: a GenericTree, None, or an escaping error.
GenericTreeTransform(links) ==
    LET templates == create_templates(links)
        linked == link_variables(templates, links) IN
    IF linked.error THEN None
    ELSE LET resolved == resolve_parents(templates, linked.parent) IN
         IF resolved.error THEN RecursionError
         ELSE IF is_valid(templates, resolved.parent)
         THEN [tag |-> "GenericTree",
               templates |-> cleanup(templates, resolved.parent)]
         ELSE None

\* The non-empty case-link sequences of at most MaxCaseLinks links.
CaseLinkSequences ==
    UNION {[1..n -> GenericCaseLink] : n \in 1..MaxCaseLinks}

(***************************************************************************)
(* The GenericTree builder as a state machine: the generating loop calls   *)
(* one transform again and again, and each call replaces the transform's   *)
(* data (commands/generate/generic.py).                                    *)
(***************************************************************************)
InitGeneric ==
    /\ permutations = EmptyPermutations
    /\ returned = None
    /\ case_links = << >>
    /\ built = None
    /\ beam_search = None
    /\ search_call = None
    /\ search_outcome = None
    /\ relation_types = RelationTypes
    /\ reducer_call = None
    /\ NoForestTransform

\* One call of GenericTreeTransform.__call__(links).
Transform(links) ==
    /\ case_links = << >>
    /\ case_links' = links
    /\ built' = GenericTreeTransform(links)
    /\ UNCHANGED <<reducerVars, searchVars, templateVars,
                 forestVars, antiFactualVars>>

\* The caller takes the result (keeping a tree, dropping None) and goes on to
\* its next case-link list; _cleanup has erased the transform's data.
Collect ==
    /\ case_links # << >>
    /\ case_links' = << >>
    /\ built' = None
    /\ UNCHANGED <<reducerVars, searchVars, templateVars,
                 forestVars, antiFactualVars>>

TransformStep ==
    /\ case_links = << >>
    /\ \E links \in CaseLinkSequences : Transform(links)

NextGeneric == TransformStep \/ Collect

SpecGeneric == InitGeneric /\ [][NextGeneric]_vars

(***************************************************************************)
(* Claims about the GenericTree builder.                                   *)
(***************************************************************************)
\* A template endpoint, named by its relation id and its side.
Endpoints == RelationIds \X {"source", "target"}

\* The endpoint a non-ZERO case-link makes the child (linked_var).
LinkedEndpoint(cl) ==
    <<cl.r2_id, IF cl.case \in {"ONE", "THREE"} THEN "source" ELSE "target">>

\* The endpoint a non-ZERO case-link makes the parent (main_var).
MainEndpoint(cl) ==
    <<cl.r1_id, IF cl.case \in {"ONE", "TWO"} THEN "target" ELSE "source">>

\* The positions of the non-ZERO case-links of a sequence.
Linking(links) == {i \in 1..Len(links) : links[i].case # "ZERO"}

\* Some endpoint is the linked endpoint of two non-ZERO case-links.
TwoParents(links) ==
    \E i, j \in Linking(links) :
        i # j /\ LinkedEndpoint(links[i]) = LinkedEndpoint(links[j])

\* The relation ids a sequence of case-links names.
UsedRelationIds(links) ==
    {links[i].r1_id : i \in 1..Len(links)} \cup {links[i].r2_id : i \in 1..Len(links)}

\* The parents of an endpoint: the main endpoints of the links that make it
\* the child.
ParentsOf(links, e) ==
    {MainEndpoint(links[i]) : i \in {j \in Linking(links) : LinkedEndpoint(links[j]) = e}}

\* The endpoints met by following parents from e for at most n steps.
RECURSIVE Ancestors(_, _, _)
Ancestors(links, es, n) ==
    IF n = 0 THEN es
    ELSE Ancestors(links, es \cup UNION {ParentsOf(links, e) : e \in es}, n - 1)

\* The ultimate parent representatives of e: the ancestors without parent
\* (exactly one when no endpoint has two parents and the parents form no
\* cycle, none when e lies on a cycle of parents).
Representatives(links, e) ==
    {a \in Ancestors(links, {e}, Cardinality(Endpoints)) : ParentsOf(links, a) = {}}

\* The merged multigraph of a case-link sequence is connected and acyclic:
\* every endpoint has a representative, and with one edge per template
\* between its endpoints' representatives the graph is connected and has one
\* edge less than it has nodes.
MergedIsTree(links) ==
    LET ids == UsedRelationIds(links)
        rep(e) == CHOOSE r \in Representatives(links, e) : TRUE
        nodes == {rep(<<r, side>>) : r \in ids, side \in {"source", "target"}}
        edge(r) == {rep(<<r, "source">>), rep(<<r, "target">>)} IN
    /\ \A r \in ids, side \in {"source", "target"} :
           Representatives(links, <<r, side>>) # {}
    /\ Cardinality(ids) = Cardinality(nodes) - 1
    /\ reachable({CHOOSE n \in nodes : TRUE}, {edge(r) : r \in ids}) = nodes

\* C4 (as stated): when no endpoint is assigned two parents, the call returns
\* a tree if and only if the merged multigraph (every endpoint merged with its
\* ultimate parent representative, one edge per template) is connected and
\* acyclic, and returns None in every other case.
C4_TreeIffMergedPolyTree ==
    (case_links # << >> /\ ~TwoParents(case_links)) =>
        IF MergedIsTree(case_links)
        THEN built.tag = "GenericTree"
        ELSE built = None

\* C5: a case-link sequence in which some endpoint is the linked endpoint of
\* two non-ZERO case-links makes the call return None, wherever the two links
\* stand in the sequence.
C5_TwoParentsGiveNone ==
    (case_links # << >> /\ TwoParents(case_links)) => built = None

\* C5 witness: a call with two different case-links claiming the same child
\* endpoint from two different templates has returned None.
C5_Witness ==
    /\ Len(case_links) = 2
    /\ TwoParents(case_links)
    /\ case_links[1].r1_id # case_links[2].r1_id
    /\ built = None

\* The variables of a returned tree.
TreeVariables(tree) ==
    UNION {{tree.templates[k].source, tree.templates[k].target} :
              k \in 1..Len(tree.templates)}

\* C6: a single case-link between two distinct relation ids yields, for each
\* of the cases ONE to FOUR, a tree of two templates sharing exactly one
\* variable (three distinct variables), and None for case ZERO.
C6_SingleLink ==
    (Len(case_links) = 1 /\ case_links[1].r1_id # case_links[1].r2_id) =>
        IF case_links[1].case = "ZERO"
        THEN built = None
        ELSE /\ built.tag = "GenericTree"
             /\ Len(built.templates) = 2
             /\ built.templates[1].source # built.templates[1].target
             /\ built.templates[2].source # built.templates[2].target
             /\ Cardinality({built.templates[1].source, built.templates[1].target}
                    \cap {built.templates[2].source, built.templates[2].target}) = 1
             /\ Cardinality(TreeVariables(built)) = 3

\* C6 witness: a single case TWO link between two relation ids has produced a
\* tree whose two templates share their target.
C6_Witness ==
    /\ Len(case_links) = 1
    /\ case_links[1].r1_id # case_links[1].r2_id
    /\ case_links[1].case = "TWO"
    /\ built.tag = "GenericTree"
    /\ built.templates[1].target = built.templates[2].target

\* C7 (as stated): every call on a finite case-link sequence returns either a
\* GenericTree or None; no error escapes.
C7_TreeOrNone ==
    case_links # << >> => built.tag \in {"GenericTree", "None"}

(***************************************************************************)
(* components/instantiator.py, databases/conceptnet/instantiator.py,       *)
(* components/sorter.py: the collaborators of BeamSearch.                  *)
(***************************************************************************)
\* Variable identifiers of relational trees (base/variable.py: VarId = str).
VarIds == {"A", "B", "C"}

\* Terms, in the formatted form "/c/<language>/<term>" that the ConceptNet
\* frames hold and that ConceptNet.format leaves as it is.
Terms == {"t1", "t2", "t3", "t4"}

\* The relation types the ConceptNet frames are loaded for, and the trees
\* searched are made of.
LoadedRelationTypes == {"r1"}

\* The variables a seed fixes.
SeedIds == {"A", "B"}

\* RelationalTemplate values.
RelationalTemplate ==
    [source_id : VarIds, relation_type : RelationTypes, target_id : VarIds]

\* The templates of the trees searched.
Templates ==
    {t \in RelationalTemplate :
        t.relation_type \in LoadedRelationTypes /\ t.source_id # t.target_id}

\* The rows of the ConceptNet frames: (source, target) under a relation type,
\* between two different terms.
Assertions ==
    {a \in [source : Terms, relation_type : LoadedRelationTypes, target : Terms] :
        a.source # a.target}

\* AntiFactualMethod values.
AntiFactualMethod == {"ALL_RELATIONS", "SAME_RELATION", "OTHER_RELATIONS", "SAME_PARTNER"}

\* BeamSearchProtocol values.
BeamSearchProtocol == {"AF_IN_LINE", "AF_POST_HOC"}

\* Query(template, query_id, partner_term)
Query(template, query_id, partner_term) ==
    [template |-> template, query_id |-> query_id, partner_term |-> partner_term]

\* The values of the query column (_query_column) in a set of rows.
query_column(rows, q) ==
    IF q.template.source_id = q.query_id
    THEN {a.source : a \in rows}
    ELSE {a.target : a \in rows}

\* Every row kept, whatever the partner (a plausible slip).
keep_all(rows, q) == rows

\* ConceptNetInstantiator._keep_matching on the partner column
\* (_partner_column).
keep_matching(rows, q) ==
    IF q.template.source_id = q.query_id
    THEN {a \in rows : a.target = q.partner_term}
    ELSE {a \in rows : a.source = q.partner_term}

\* ConceptNet.get_assertions: the frame of a relation type.
get_assertions(db, relation_type) == {a \in db : a.relation_type = relation_type}

\* ConceptNetInstantiator._factual_query
factual_query(db, q) ==
    query_column(keep_matching(get_assertions(db, q.template.relation_type), q), q)

\* ConceptNetInstantiator._anti_factual_query
anti_factual_query(db, method, q) ==
    LET hits ==
          IF method = "ALL_RELATIONS" THEN query_column(db, q)
          ELSE IF method = "SAME_RELATION"
          THEN query_column(get_assertions(db, q.template.relation_type), q)
          ELSE IF method = "OTHER_RELATIONS"
          THEN query_column(db \ get_assertions(db, q.template.relation_type), q)
          ELSE query_column(keep_matching(db, q), q) IN
    hits \ factual_query(db, q)

\* The SemanticDistanceCalculator of the deterministic sorter: a distance
\* that depends on the term alone, different for different terms.
semantic_distance(term) ==
    IF term = "t1" THEN 1 ELSE IF term = "t2" THEN 2 ELSE IF term = "t3" THEN 3 ELSE 4

\* sorted(scores.items(), key=score): ascending.
RECURSIVE sorted_by_score(_)
sorted_by_score(terms) ==
    IF terms = {} THEN << >>
    ELSE LET best == CHOOSE t \in terms :
                        \A u \in terms : semantic_distance(t) <= semantic_distance(u) IN
         <<best>> \o sorted_by_score(terms \ {best})

\* One sorter session, new_collection .. add_query_result* .. sort_collection
\* of SemanticDistanceSorter: the terms that came with every contribution,
\* best first; none when there was no contribution.
sort_collection(results) ==
    sorted_by_score({t \in UNION results : \A r \in results : t \in r})

(***************************************************************************)
(* components/search.py: BeamSearch. self is the BeamSearch object: the    *)
(* ConceptNet rows behind its two instantiators, the anti-factual method,  *)
(* the protocol and top_k.                                                 *)
(***************************************************************************)
\* The outcome of a call: the mappings yielded, or the error that ended it.
NoError == "none"
Yielded(mappings) == [error |-> NoError, yielded |-> mappings]
Raised(error) == [error |-> error, yielded |-> {}]

\* The variable ids of a tree (RelationalTree.unique_variable_ids).
unique_variable_ids(tree) ==
    UNION {{tree[k].source_id, tree[k].target_id} : k \in 1..Len(tree)}

\* The uniqueness test left out (a plausible slip).
unique_terms_unchecked(mapping) == TRUE

\* "len(set(mapping.values())) == len(mapping.values())"
unique_terms(mapping) ==
    Cardinality({mapping[v] : v \in DOMAIN mapping}) = Cardinality(DOMAIN mapping)

\* {**left, **right}
merged(left, right) ==
    [v \in DOMAIN left \cup DOMAIN right |->
        IF v \in DOMAIN right THEN right[v] ELSE left[v]]

\* product(*values) zipped with the keys: every choice of one candidate per
\* variable.
instantiations(candidate_mapping) ==
    {f \in [DOMAIN candidate_mapping -> Terms] :
        \A v \in DOMAIN candidate_mapping : f[v] \in candidate_mapping[v]}

\* BeamSearch._clean_up that slices to top_k whatever its value, keeping
\* nothing when top_k is 0 (a plausible slip).
clean_up_slice(self, results) ==
    LET sorted == sort_collection(results) IN
    {sorted[i] : i \in 1..(IF self.top_k < Len(sorted) THEN self.top_k ELSE Len(sorted))}

\* BeamSearch._clean_up
clean_up(self, results) ==
    LET sorted == sort_collection(results) IN
    IF 0 < self.top_k /\ self.top_k < Len(sorted)
    THEN {sorted[i] : i \in 1..self.top_k}
    ELSE {sorted[i] : i \in 1..Len(sorted)}

\* The (template, partner, test) triples of the first loop of
\* _query_frontier_variables: partner is fixed and test is not.
frontier_entries(tree, fixed_mapping) ==
    {e \in [k : 1..Len(tree), partner : unique_variable_ids(tree),
             test : unique_variable_ids(tree)] :
        /\ \/ e.partner = tree[e.k].source_id /\ e.test = tree[e.k].target_id
           \/ e.partner = tree[e.k].target_id /\ e.test = tree[e.k].source_id
        /\ e.partner \in DOMAIN fixed_mapping
        /\ e.test \notin DOMAIN fixed_mapping}

\* "raise ValueError('ReasoningTree has a cycle')": two templates link the
\* same frontier variable to the same fixed partner.
frontier_conflict(entries) ==
    \E e1, e2 \in entries : e1.k # e2.k /\ e1.partner = e2.partner /\ e1.test = e2.test

\* The instantiator a frontier variable is queried with.
frontier_query(self, anti_factual_ids, frontier_var, q) ==
    IF frontier_var \in anti_factual_ids /\ self.protocol = "AF_IN_LINE"
    THEN anti_factual_query(self.db, self.method, q)
    ELSE factual_query(self.db, q)

\* BeamSearch._query_frontier_variables, when it does not raise: the
\* candidate terms of every frontier variable.
query_frontier_variables(self, tree, anti_factual_ids, fixed_mapping) ==
    LET entries == frontier_entries(tree, fixed_mapping) IN
    [frontier_var \in {e.test : e \in entries} |->
        clean_up(self,
            {frontier_query(self, anti_factual_ids, frontier_var,
                            Query(tree[e.k], frontier_var, fixed_mapping[e.partner])) :
                e \in {x \in entries : x.test = frontier_var}})]

\* The body of _is_valid_mapping's loop for one template whose endpoints are
\* both mapped: whether the mapping survives this template.
template_is_valid(self, anti_factual_ids, fixed_mapping, instantiation_order, template) ==
    LET source == template.source_id
        target == template.target_id
        do_inline == self.protocol = "AF_IN_LINE"
        q == Query(template, source, fixed_mapping[target])
        attested == fixed_mapping[source] \in factual_query(self.db, q)
        later_ok(query_id, partner) ==
            instantiation_order[query_id] > instantiation_order[partner] =>
                IF query_id \in anti_factual_ids /\ do_inline
                THEN ~attested ELSE attested
        tie_ok ==
            instantiation_order[source] = instantiation_order[target] =>
                IF do_inline
                THEN IF source \in anti_factual_ids /\ target \in anti_factual_ids
                     THEN ~attested
                     ELSE IF source \notin anti_factual_ids /\ target \notin anti_factual_ids
                     THEN attested
                     ELSE FALSE
                ELSE attested IN
    later_ok(source, target) /\ later_ok(target, source) /\ tie_ok

\* The tiebreak of _is_valid_mapping refusing every same-depth pair under
\* AF_IN_LINE (a plausible slip).
template_is_valid_no_tie(self, anti_factual_ids, fixed_mapping, instantiation_order, template) ==
    /\ template_is_valid(self, anti_factual_ids, fixed_mapping, instantiation_order, template)
    /\ (self.protocol = "AF_IN_LINE" =>
           instantiation_order[template.source_id] # instantiation_order[template.target_id])

\* _is_valid_mapping without its tiebreak: only endpoints fixed at different
\* depths are looked at (a plausible slip).
template_is_valid_later_only(self, anti_factual_ids, fixed_mapping, instantiation_order, template) ==
    instantiation_order[template.source_id] # instantiation_order[template.target_id] =>
        template_is_valid(self, anti_factual_ids, fixed_mapping, instantiation_order, template)

\* The check _is_valid_mapping applies to each template.
check_template(self, anti_factual_ids, fixed_mapping, instantiation_order, template) ==
    template_is_valid(self, anti_factual_ids, fixed_mapping, instantiation_order, template)

\* BeamSearch._is_valid_mapping from template i on: "True", "False", or
\* "KeyError" when a template's endpoint has no term in the mapping.
RECURSIVE is_valid_mapping_from(_, _, _, _, _, _)
is_valid_mapping_from(self, tree, anti_factual_ids, fixed_mapping, instantiation_order, i) ==
    IF i > Len(tree) THEN "True"
    ELSE IF ~({tree[i].source_id, tree[i].target_id} \subseteq DOMAIN fixed_mapping)
    THEN "KeyError"
    ELSE IF ~check_template(self, anti_factual_ids, fixed_mapping,
                            instantiation_order, tree[i])
    THEN "False"
    ELSE is_valid_mapping_from(self, tree, anti_factual_ids, fixed_mapping,
                               instantiation_order, i + 1)

\* BeamSearch._is_valid_mapping
is_valid_mapping(self, tree, anti_factual_ids, fixed_mapping, instantiation_order) ==
    is_valid_mapping_from(self, tree, anti_factual_ids, fixed_mapping,
                          instantiation_order, 1)

\* The outcomes of several branches of a generator, taken together.
all_outcomes(outcomes) ==
    IF \E o \in outcomes : o.error # NoError
    THEN Raised((CHOOSE o \in outcomes : o.error # NoError).error)
    ELSE Yielded(UNION {o.yielded : o \in outcomes})

\* _do_inline taking the mapping it is given for a complete one (a plausible
\* slip): no frontier is queried.
do_inline_without_frontier(self, tree, anti_factual_ids, fixed_mapping, instantiation_order, count) ==
    IF unique_terms(fixed_mapping) THEN Yielded({fixed_mapping}) ELSE Yielded({})

RECURSIVE do_inline(_, _, _, _, _, _)
\* BeamSearch._do_inline
do_inline(self, tree, anti_factual_ids, fixed_mapping, instantiation_order, count) ==
    LET entries == frontier_entries(tree, fixed_mapping) IN
    IF frontier_conflict(entries) THEN Raised("ValueError")
    ELSE LET candidate_mapping ==
                 query_frontier_variables(self, tree, anti_factual_ids, fixed_mapping) IN
         IF DOMAIN candidate_mapping # {}
         THEN all_outcomes(
                  {do_inline(self, tree, anti_factual_ids, new_mapping,
                             merged(instantiation_order,
                                    [k \in DOMAIN candidate_mapping |-> count]),
                             count + 1) :
                      new_mapping \in
                          {m \in {merged(fixed_mapping, i) :
                                     i \in instantiations(candidate_mapping)} :
                              unique_terms(m)}})
         ELSE IF unique_terms(fixed_mapping)
         THEN LET valid == is_valid_mapping(self, tree, anti_factual_ids,
                                            fixed_mapping, instantiation_order) IN
              IF valid = "KeyError" THEN Raised("KeyError")
              ELSE IF valid = "True" THEN Yielded({fixed_mapping})
              ELSE Yielded({})
         ELSE Yielded({})

\* The templates _do_post_hoc queries for an anti-factual variable, each with
\* the partner of the variable in it.
af_partners(tree, af_var) ==
    {e \in [k : 1..Len(tree), partner : unique_variable_ids(tree)] :
        \/ af_var = tree[e.k].source_id /\ e.partner = tree[e.k].target_id
        \/ af_var # tree[e.k].source_id /\ af_var = tree[e.k].target_id
             /\ e.partner = tree[e.k].source_id}

\* _do_post_hoc for one factual mapping.
post_hoc_of(self, tree, anti_factual_ids, mapping) ==
    LET af_vars == {anti_factual_ids[i] : i \in 1..Len(anti_factual_ids)} IN
    IF ~(af_vars \subseteq DOMAIN mapping) THEN Raised("KeyError")
    ELSE LET af_mapping ==
                 [af_var \in af_vars |->
                     clean_up(self,
                         {anti_factual_query(self.db, self.method,
                              Query(tree[e.k], af_var, mapping[e.partner])) :
                             e \in af_partners(tree, af_var)})] IN
         Yielded({m \in {merged(mapping, i) : i \in instantiations(af_mapping)} :
                     unique_terms(m)})

\* BeamSearch._do_post_hoc
do_post_hoc(self, tree, anti_factual_ids, fixed_mapping, instantiation_order, count) ==
    LET af_vars == {anti_factual_ids[i] : i \in 1..Len(anti_factual_ids)}
        all_factual_mappings ==
            do_inline(self, tree, af_vars, fixed_mapping, instantiation_order, count) IN
    IF all_factual_mappings.error # NoError THEN all_factual_mappings
    ELSE all_outcomes({post_hoc_of(self, tree, anti_factual_ids, mapping) :
                          mapping \in all_factual_mappings.yielded})

\* BeamSearch.__call__
BeamSearch(self, tree, anti_factual_ids, seed_mapping) ==
    LET order == [k \in DOMAIN seed_mapping |-> 0]
        af_vars == {anti_factual_ids[i] : i \in 1..Len(anti_factual_ids)} IN
    IF self.protocol = "AF_IN_LINE"
    THEN do_inline(self, tree, af_vars, seed_mapping, order, 1)
    ELSE do_post_hoc(self, tree, anti_factual_ids, seed_mapping, order, 1)

(***************************************************************************)
(* The state machine of BeamSearch: an object built over some ConceptNet   *)
(* rows with some configuration, called with a tree, anti-factual ids and  *)
(* a seed; the caller consumes everything the call yields                  *)
(* (ForestTransform._do_instantiate) before the next call.                 *)
(***************************************************************************)
\* The ConceptNet frames an object can be built over.
Databases == {db \in SUBSET Assertions : Cardinality(db) <= MaxAssertions}

\* The anti-factual methods an object is built with: the default of the
\* preprocessing configuration and the one that looks at the partner.
Methods == {"SAME_RELATION", "SAME_PARTNER"}

\* The trees of a call: a tree over the variables has one template less than
\* it has variables; sequences of that length or shorter, well-formed or not.
Trees == UNION {[1..n -> Templates] : n \in 1..(Cardinality(VarIds) - 1)}

\* The seeds of a call (ForestTransform._do_instantiate: the answer variable
\* and the pairing variable, each with its formatted term).
SeedMappings == {[v \in SeedIds |-> IF v = "A" THEN "t1" ELSE t] : t \in {"t1", "t2"}}

\* The anti-factual id lists of a call (ForestTransform._all_anti_factual_ids:
\* sorted, without the seed's variables).
AntiFactualIds == {<< >>, <<"C">>}

InitSearch ==
    /\ permutations = EmptyPermutations
    /\ returned = None
    /\ case_links = << >>
    /\ built = None
    /\ beam_search \in [db : Databases, method : Methods,
                        protocol : BeamSearchProtocol, top_k : 0..MaxTopK]
    /\ search_call = None
    /\ search_outcome = None
    /\ relation_types = RelationTypes
    /\ reducer_call = None
    /\ NoForestTransform

\* One call of BeamSearch.__call__(tree, anti_factual_ids, seed_mapping),
\* consumed to its end.
Search(tree, anti_factual_ids, seed_mapping) ==
    /\ search_call = None
    /\ search_call' = [tree |-> tree, anti_factual_ids |-> anti_factual_ids,
                       seed_mapping |-> seed_mapping]
    /\ search_outcome' = BeamSearch(beam_search, tree, anti_factual_ids, seed_mapping)
    /\ UNCHANGED <<beam_search, reducerVars, genericVars, templateVars,
                 forestVars, antiFactualVars>>

\* The caller is done with what the call yielded.
Consume ==
    /\ search_call # None
    /\ search_call' = None
    /\ search_outcome' = None
    /\ UNCHANGED <<beam_search, reducerVars, genericVars, templateVars,
                 forestVars, antiFactualVars>>

SearchStep ==
    /\ search_call = None
    /\ \E tree \in Trees, anti_factual_ids \in AntiFactualIds, seed_mapping \in SeedMappings :
           Search(tree, anti_factual_ids, seed_mapping)

NextSearch == SearchStep \/ Consume

SpecSearch == InitSearch /\ [][NextSearch]_vars

(***************************************************************************)
(* Claims about BeamSearch.                                                *)
(***************************************************************************)
\* The other protocol.
other_protocol(protocol) ==
    IF protocol = "AF_IN_LINE" THEN "AF_POST_HOC" ELSE "AF_IN_LINE"

\* A tree over three variables was searched and a mapping came out.
FullSearch ==
    /\ search_call # None
    /\ unique_variable_ids(search_call.tree) = VarIds
    /\ search_outcome.yielded # {}

\* C1: under AF_IN_LINE and under AF_POST_HOC, whatever the tree, the seed
\* and the rows behind the instantiators, no mapping yielded by BeamSearch
\* gives the same term to two different variables; a seed whose two terms
\* coincide yields nothing.
C1_YieldedTermsAreUnique ==
    search_call # None =>
        /\ \A m \in search_outcome.yielded :
              \A v, w \in DOMAIN m : v # w => m[v] # m[w]
        /\ (search_call.seed_mapping["A"] = search_call.seed_mapping["B"] =>
               search_outcome.yielded = {})

\* C1 happens: a post-hoc search replaced the term of the anti-factual
\* variable and yielded a mapping of all three variables.
C1_Witness ==
    /\ FullSearch
    /\ beam_search.protocol = "AF_POST_HOC"
    /\ search_call.anti_factual_ids = <<"C">>

\* C2: with an empty anti-factual id list, the same tree, seed, rows, sorter
\* and top_k, BeamSearch yields the same set of mappings under AF_IN_LINE and
\* under AF_POST_HOC.
C2_ProtocolsAgreeWithoutAntiFactuals ==
    (search_call # None /\ search_call.anti_factual_ids = << >>) =>
        search_outcome.yielded =
            BeamSearch([beam_search EXCEPT !.protocol = other_protocol(@)],
                       search_call.tree, search_call.anti_factual_ids,
                       search_call.seed_mapping).yielded

\* C2 happens: a search without anti-factual ids, cut to the best candidate,
\* yielded a mapping of all three variables.
C2_Witness ==
    /\ FullSearch
    /\ search_call.anti_factual_ids = << >>
    /\ beam_search.top_k = 1

\* The tree is valid: its templates, taken as undirected edges, connect its
\* variables without a cycle.
valid_tree(tree) ==
    LET edges == {{tree[k].source_id, tree[k].target_id} : k \in 1..Len(tree)} IN
    /\ Cardinality(edges) = Len(tree)
    /\ is_tree(unique_variable_ids(tree), edges)

\* C3: for a valid tree and a seed fixing two of its variables, every mapping
\* BeamSearch yields, under either protocol, has exactly the tree's variable
\* ids as its keys.
C3_YieldedMappingsAreTotal ==
    (/\ search_call # None
     /\ valid_tree(search_call.tree)
     /\ DOMAIN search_call.seed_mapping \subseteq unique_variable_ids(search_call.tree)) =>
        \A m \in search_outcome.yielded :
            DOMAIN m = unique_variable_ids(search_call.tree)

\* C3 happens: an in-line search of a valid tree over three variables, the
\* third one anti-factual, yielded a mapping.
C3_Witness ==
    /\ FullSearch
    /\ valid_tree(search_call.tree)
    /\ beam_search.protocol = "AF_IN_LINE"
    /\ search_call.anti_factual_ids = <<"C">>

(***************************************************************************)
(* Claims about the Reducer registry.                                      *)
(***************************************************************************)
\* Whether a case-link is its own equivalent: equal relation types and a
\* case that Case.equivalent leaves fixed.
SelfEquivalent(cl) == equivalent(cl) = cl

\* C8 (as stated): for every registered case-link cl with reduction red, over
\* all relation-type pairs and all five cases, reduce_case_link(cl) returns
\* red and reduce_case_link(cl.equivalent()) returns the inverse of red.
C8_EquivalentAlwaysInverse ==
    \A cl \in DOMAIN permutations :
        /\ reduce_case_link(permutations, cl) = permutations[cl]
        /\ reduce_case_link(permutations, equivalent(cl)) = invert(permutations[cl])

\* C8 (amended): for every registered case-link cl with reduction red,
\* reduce_case_link(cl) returns red; reduce_case_link(cl.equivalent()) returns
\* the inverse of red (same relation type, order flipped) when cl.equivalent()
\* differs from cl, and red itself when cl is its own equivalent.
C8_EquivalentInverseUnlessSelf ==
    \A cl \in DOMAIN permutations :
        LET red == permutations[cl]
            inv == reduce_case_link(permutations, equivalent(cl)) IN
        /\ reduce_case_link(permutations, cl) = red
        /\ ~SelfEquivalent(cl) =>
              /\ inv.relation_type = red.relation_type
              /\ inv.order # red.order
              /\ inv = invert(red)
        /\ SelfEquivalent(cl) => inv = red

\* C8 witness: the only registered case-link differs from its equivalent and
\* the last call, a reduce_case_link of that equivalent, returned the inverse.
C8_Witness ==
    \E cl \in DOMAIN permutations :
        /\ DOMAIN permutations = {cl}
        /\ ~SelfEquivalent(cl)
        /\ cl.r1_type # cl.r2_type
        /\ returned = invert(permutations[cl])

\* C9: the registry never holds two distinct keys that are each other's
\* equivalent.
C9_NoEquivalentPair ==
    \A k1, k2 \in DOMAIN permutations : k1 # k2 => k2 # equivalent(k1)

\* C9 witness: two case-links are registered, each different from its own
\* equivalent, and a strict registration has just been refused.
C9_Witness ==
    /\ Cardinality(DOMAIN permutations) = 2
    /\ \A k \in DOMAIN permutations : ~SelfEquivalent(k)
    /\ returned = ValueError

\* C10: a register call with a case-link that is registered, or whose
\* equivalent is, leaves the registry unchanged, and with it what
\* reduce_case_link answers for the case-link and its equivalent; it raises
\* ValueError with the strict flag and returns silently without it.
C10_DuplicateRegisterIsNoOp ==
    \A cl \in RelationalCaseLink :
        (cl \in DOMAIN permutations \/ equivalent(cl) \in DOMAIN permutations) =>
            \A red \in Reduction, raise_ \in BOOLEAN :
                LET r == register(permutations, cl, red, raise_) IN
                /\ r.permutations = permutations
                /\ \A q \in {cl, equivalent(cl)} :
                       reduce_case_link(r.permutations, q)
                           = reduce_case_link(permutations, q)
                /\ r.raised = raise_

\* C10 witness: one case-link is registered and a strict registration of it
\* (or of its equivalent) has just raised.
C10_Witness ==
    /\ Cardinality(DOMAIN permutations) = 1
    /\ returned = ValueError


(***************************************************************************)
(* Claims about the Case algebra.                                          *)
(***************************************************************************)
\* C11: Case.equivalent sends ONE to FOUR and FOUR to ONE, leaves ZERO, TWO
\* and THREE fixed, and applied twice gives the case back; so
\* RelationalCaseLink.equivalent applied twice gives the case-link back, for
\* every case-link and in particular for every one the registry holds.
C11_EquivalentIsInvolution ==
    /\ equivalent_case("ONE") = "FOUR"
    /\ equivalent_case("FOUR") = "ONE"
    /\ \A c \in {"ZERO", "TWO", "THREE"} : equivalent_case(c) = c
    /\ \A c \in Case : equivalent_case(equivalent_case(c)) = c
    /\ \A cl \in RelationalCaseLink :
          /\ equivalent(cl).r1_type = cl.r2_type
          /\ equivalent(cl).r2_type = cl.r1_type
          /\ equivalent(equivalent(cl)) = cl
    /\ \A cl \in DOMAIN permutations :
          reduce_case_link(permutations, equivalent(equivalent(cl))) = permutations[cl]

\* C11 happens: a case-link of case FOUR between two different relation types
\* is registered, and the last call looked it up through its equivalent (case
\* ONE, types swapped).
C11_Witness ==
    \E cl \in DOMAIN permutations :
        /\ cl.case = "FOUR"
        /\ cl.r1_type # cl.r2_type
        /\ returned = invert(permutations[cl])
        /\ returned = reduce_case_link(permutations, equivalent(cl))


(***************************************************************************)
(* base/case.py, components/reducer.py, io.py: templates and the Reducer.  *)
(***************************************************************************)
\* The rules a loaded Reducer holds at most.
MaxRules == 1

\* The endpoint of a reduced template that has none (Python None).
NoVarId == "None"

\* RelationalCaseLink.from_templates without the checks for circular pairs
\* (a plausible slip): the first endpoint equality that holds decides.
from_templates_unchecked(t1, t2) ==
    [r1_type |-> t1.relation_type, r2_type |-> t2.relation_type,
     case |-> IF t1.target_id = t2.source_id THEN "ONE"
              ELSE IF t1.target_id = t2.target_id THEN "TWO"
              ELSE IF t1.source_id = t2.source_id THEN "THREE"
              ELSE IF t1.source_id = t2.target_id THEN "FOUR"
              ELSE "ZERO"]

\* RelationalCaseLink.from_templates: the case-link of two templates, or the
\* ValueError raised for a circular pair.
from_templates(t1, t2) ==
    LET t1_source == t1.source_id
        t1_target == t1.target_id
        t2_source == t2.source_id
        t2_target == t2.target_id
        link(case) == [r1_type |-> t1.relation_type,
                       r2_type |-> t2.relation_type, case |-> case]
    IN  IF t1_target = t2_source
        THEN IF t1_source \in {t1_target, t2_target} \/ t2_target = t2_source
             THEN ValueError ELSE link("ONE")
        ELSE IF t1_target = t2_target
        THEN IF t1_source \in {t1_target, t2_source} \/ t2_source = t2_target
             THEN ValueError ELSE link("TWO")
        ELSE IF t1_source = t2_source
        THEN IF t1_target \in {t1_source, t2_target} \/ t2_target = t2_source
             THEN ValueError ELSE link("THREE")
        ELSE IF t1_source = t2_target
        THEN IF t1_target \in {t1_source, t2_source} \/ t2_source = t2_target
             THEN ValueError ELSE link("FOUR")
        ELSE IF t1_source = t2_target \/ t2_source = t2_target
             THEN ValueError ELSE link("ZERO")

\* The outer endpoints Reducer.reduce_templates picks for a case.
outer_endpoints(case, t1, t2) ==
    IF case = "ZERO" THEN <<NoVarId, NoVarId>>
    ELSE IF case = "ONE" THEN <<t1.source_id, t2.target_id>>
    ELSE IF case = "TWO" THEN <<t1.source_id, t2.source_id>>
    ELSE IF case = "THREE" THEN <<t1.target_id, t2.target_id>>
    ELSE <<t1.target_id, t2.source_id>>

\* Reducer.reduce_templates that never swaps the endpoints (a plausible slip).
reduce_templates_no_swap(types, perms, t1, t2) ==
    LET case_link == from_templates(t1, t2) IN
    IF case_link = ValueError THEN ValueError
    ELSE LET ends == outer_endpoints(case_link.case, t1, t2)
             reduction == reduce_case_link(perms, case_link)
         IN  IF reduction = None THEN None
             ELSE IF reduction.relation_type \notin types THEN None
             ELSE [source_id |-> ends[1],
                   relation_type |-> reduction.relation_type,
                   target_id |-> ends[2]]

\* Reducer.reduce_templates: the reduced template, None, or the ValueError
\* that from_templates raised.
reduce_templates(types, perms, t1, t2) ==
    LET case_link == from_templates(t1, t2) IN
    IF case_link = ValueError THEN ValueError
    ELSE LET ends == outer_endpoints(case_link.case, t1, t2)
             reduction == reduce_case_link(perms, case_link)
         IN  IF reduction = None THEN None
             ELSE IF reduction.relation_type \notin types THEN None
             ELSE IF reduction.order = "REVERSE"
                  THEN [source_id |-> ends[2],
                        relation_type |-> reduction.relation_type,
                        target_id |-> ends[1]]
                  ELSE [source_id |-> ends[1],
                        relation_type |-> reduction.relation_type,
                        target_id |-> ends[2]]

\* The relation lists a Reducer is constructed with (Reducer.__init__).
ReducerRelationTypes == {RelationTypes, {"r1"}}

\* The first template of the pairs handed to the Reducer: its source is "A",
\* which loses no pattern, the variables being interchangeable.
FirstTemplates == {t \in RelationalTemplate : t.source_id = "A"}

\* io.load_reducer_csv has built the Reducer; it holds no rule yet.
InitTemplates ==
    /\ permutations = EmptyPermutations
    /\ returned = None
    /\ case_links = << >>
    /\ built = None
    /\ beam_search = None
    /\ search_call = None
    /\ search_outcome = None
    /\ relation_types \in ReducerRelationTypes
    /\ reducer_call = None
    /\ NoForestTransform

\* One row of the reduction CSV: io.load_reducer_csv registers it.
LoadRule(case_link, reduction) ==
    LET r == register(permutations, case_link, reduction, FALSE) IN
    /\ reducer_call = None
    /\ NoForestTransform
    /\ Cardinality(DOMAIN permutations) < MaxRules
    /\ permutations' = r.permutations
    /\ returned' = None
    /\ UNCHANGED <<genericVars, searchVars, templateVars,
                 forestVars, antiFactualVars>>

\* One call of RelationalCaseLink.from_templates(t1, t2).
FromTemplates(t1, t2) ==
    /\ reducer_call' = [op |-> "from_templates", t1 |-> t1, t2 |-> t2]
    /\ returned' = from_templates(t1, t2)
    /\ UNCHANGED <<permutations, relation_types, genericVars, searchVars,
                 forestVars, antiFactualVars>>

\* One call of Reducer.reduce_templates(t1, t2).
ReduceTemplates(t1, t2) ==
    /\ reducer_call' = [op |-> "reduce_templates", t1 |-> t1, t2 |-> t2]
    /\ returned' = reduce_templates(relation_types, permutations, t1, t2)
    /\ UNCHANGED <<permutations, relation_types, genericVars, searchVars,
                 forestVars, antiFactualVars>>

\* The caller takes the result.
TakeResult ==
    /\ reducer_call # None
    /\ reducer_call' = None
    /\ returned' = None
    /\ UNCHANGED <<permutations, relation_types, genericVars, searchVars,
                 forestVars, antiFactualVars>>

LoadRuleStep ==
    \E cl \in RelationalCaseLink, red \in Reduction : LoadRule(cl, red)

FromTemplatesStep ==
    /\ reducer_call = None
    /\ NoForestTransform
    /\ \E t1 \in FirstTemplates, t2 \in RelationalTemplate : FromTemplates(t1, t2)

ReduceTemplatesStep ==
    /\ reducer_call = None
    /\ NoForestTransform
    /\ \E t1 \in FirstTemplates, t2 \in RelationalTemplate : ReduceTemplates(t1, t2)

NextTemplates ==
    LoadRuleStep \/ FromTemplatesStep \/ ReduceTemplatesStep \/ TakeResult

SpecTemplates == InitTemplates /\ [][NextTemplates]_vars

\* A template whose two endpoints are one variable.
self_referential(t) == t.source_id = t.target_id

\* Two templates over the same two variables, in either direction.
share_both_endpoints(t1, t2) ==
    {t1.source_id, t1.target_id} = {t2.source_id, t2.target_id}

\* C12: from_templates raises ValueError for every pair of templates of
\* which one is self-referential or which share both endpoints, whatever
\* branch the pair falls in, the disjoint one (case ZERO) included.
C12_CircularPairsRaise ==
    (/\ reducer_call # None
     /\ reducer_call.op = "from_templates"
     /\ \/ self_referential(reducer_call.t1)
        \/ self_referential(reducer_call.t2)
        \/ share_both_endpoints(reducer_call.t1, reducer_call.t2))
    => returned = ValueError


\* C13: when the pair has a case-link, reduce_templates returns None (no
\* error) if no reduction is registered for the link or its equivalent or if
\* the reduction's type is not one of the Reducer's relation types; otherwise
\* it returns a template with the reduction's type whose (source, target) are
\* (t1.source, t2.target) for ONE, (t1.source, t2.source) for TWO,
\* (t1.target, t2.target) for THREE and (t1.target, t2.source) for FOUR,
\* swapped when the reduction's order is REVERSE.
C13_ReducedTemplateJoinsOuterEndpoints ==
    (/\ reducer_call # None
     /\ reducer_call.op = "reduce_templates"
     /\ from_templates(reducer_call.t1, reducer_call.t2) # ValueError)
    => LET t1 == reducer_call.t1
           t2 == reducer_call.t2
           link == from_templates(t1, t2)
           reduction == IF link \in DOMAIN permutations
                          THEN permutations[link]
                        ELSE IF equivalent(link) \in DOMAIN permutations
                          THEN invert(permutations[equivalent(link)])
                        ELSE None
           first == IF link.case \in {"ONE", "TWO"} THEN t1.source_id ELSE t1.target_id
           second == IF link.case \in {"ONE", "THREE"} THEN t2.target_id ELSE t2.source_id
       IN  IF reduction = None
           THEN returned = None
           ELSE IF reduction.relation_type \notin relation_types
           THEN returned = None
           ELSE /\ returned \notin {None, ValueError}
                /\ returned.relation_type = reduction.relation_type
                /\ link.case # "ZERO" =>
                      IF reduction.order = "REVERSE"
                      THEN returned.source_id = second /\ returned.target_id = first
                      ELSE returned.source_id = first /\ returned.target_id = second

\* A pair in case FOUR reduced through the rule registered for its
\* equivalent, with the endpoints swapped.
C13_Witness ==
    /\ reducer_call # None
    /\ reducer_call.op = "reduce_templates"
    /\ reducer_call.t1 = [source_id |-> "A", relation_type |-> "r2", target_id |-> "B"]
    /\ reducer_call.t2 = [source_id |-> "C", relation_type |-> "r1", target_id |-> "A"]
    /\ DOMAIN permutations = {[r1_type |-> "r1", r2_type |-> "r2", case |-> "ONE"]}
    /\ returned = [source_id |-> "C", relation_type |-> "r1", target_id |-> "B"]


(***************************************************************************)
(* components/reducer.py: the answer variables of a pairing.               *)
(***************************************************************************)
\* What a generator of (answer id, hop count) pairs gave when it was
\* consumed whole: the pairs in order, or the ValueError that ended it.
Answered(answers) == [raised |-> FALSE, answers |-> answers]
Failed == [raised |-> TRUE, answers |-> << >>]

\* `template in templates` on a list of templates.
in_list(template, templates) ==
    \E i \in DOMAIN templates : templates[i] = template

\* Reducer._is_valid_match that does not compare the relation types (a
\* plausible slip).
is_valid_match_any_type(test_template, pairing_template, pairing_id) ==
    IF test_template = None THEN FALSE
    ELSE pairing_id \in {test_template.source_id, test_template.target_id}

\* Reducer._is_valid_match that rejects the templates of the pairing
\* template's type instead of the others (a plausible slip).
is_valid_match_negated(test_template, pairing_template, pairing_id) ==
    IF test_template = None THEN FALSE
    ELSE IF test_template.relation_type = pairing_template.relation_type THEN FALSE
    ELSE pairing_id \in {test_template.source_id, test_template.target_id}

\* Reducer._is_valid_match
is_valid_match(test_template, pairing_template, pairing_id) ==
    IF test_template = None THEN FALSE
    ELSE IF test_template.relation_type # pairing_template.relation_type THEN FALSE
    ELSE pairing_id \in {test_template.source_id, test_template.target_id}

\* Reducer._answer_ids_and_counts that forgets the pairing id may be the
\* target of the pairing template (a plausible slip).
direct_answer_source_only(templates, pairing_template, pairing_id, count) ==
    IF ~in_list(pairing_template, templates) THEN Answered(<< >>)
    ELSE IF pairing_id = pairing_template.source_id
    THEN Answered(<< <<pairing_template.target_id, count>> >>)
    ELSE Failed

\* Reducer._answer_ids_and_counts, before its loop: the other endpoint of a
\* pairing template that is in the list.
direct_answer(templates, pairing_template, pairing_id, count) ==
    IF ~in_list(pairing_template, templates) THEN Answered(<< >>)
    ELSE IF pairing_id = pairing_template.source_id
    THEN Answered(<< <<pairing_template.target_id, count>> >>)
    ELSE IF pairing_id = pairing_template.target_id
    THEN Answered(<< <<pairing_template.source_id, count>> >>)
    ELSE Failed

\* The templates kept for the recursive call (to_keep).
to_keep(templates, template, pairing_template, new_template) ==
    Append(SelectSeq(templates, LAMBDA t : t # template /\ t # pairing_template),
           new_template)

RECURSIVE answer_ids_and_counts(_, _, _, _, _, _)
RECURSIVE answer_ids_from(_, _, _, _, _, _, _)

\* The loop of Reducer._answer_ids_and_counts from the i-th template on.
answer_ids_from(types, perms, templates, pairing_template, pairing_id, count, i) ==
    IF i > Len(templates) THEN Answered(<< >>)
    ELSE
    LET template == templates[i]
        new_template == reduce_templates(types, perms, template, pairing_template)
        here == IF template = pairing_template THEN Answered(<< >>)
                ELSE IF new_template = ValueError THEN Failed
                ELSE IF is_valid_match(new_template, pairing_template, pairing_id)
                THEN answer_ids_and_counts(
                         types, perms,
                         to_keep(templates, template, pairing_template, new_template),
                         new_template, pairing_id, count + 1)
                ELSE Answered(<< >>)
    IN  IF here.raised THEN Failed
        ELSE LET rest == answer_ids_from(types, perms, templates, pairing_template,
                                         pairing_id, count, i + 1)
             IN  IF rest.raised THEN Failed
                 ELSE Answered(here.answers \o rest.answers)

\* Reducer._answer_ids_and_counts, consumed whole.
answer_ids_and_counts(types, perms, templates, pairing_template, pairing_id, count) ==
    LET direct == direct_answer(templates, pairing_template, pairing_id, count) IN
    IF direct.raised THEN Failed
    ELSE LET rest == answer_ids_from(types, perms, templates, pairing_template,
                                     pairing_id, count, 1)
         IN  IF rest.raised THEN Failed
             ELSE Answered(direct.answers \o rest.answers)

\* Reducer.valid_answer_ids
valid_answer_ids(types, perms, tree, pairing_template, pairing_id, return_counts) ==
    LET r == answer_ids_and_counts(types, perms, tree, pairing_template, pairing_id, 0) IN
    IF r.raised THEN Failed
    ELSE Answered([i \in DOMAIN r.answers |->
                      IF return_counts THEN r.answers[i] ELSE r.answers[i][1]])


\* The trees handed to valid_answer_ids: the valid poly-trees over VarIds.
AnswerTrees ==
    {tree \in UNION {[1..n -> RelationalTemplate] : n \in 1..(Cardinality(VarIds) - 1)} :
        valid_tree(tree)}

\* The pairing variable of the calls: "A", which loses no pattern, the
\* variables being interchangeable.
PairingId == "A"

\* One call of Reducer.valid_answer_ids(tree, pairing_template, pairing_id,
\* return_counts).
ValidAnswerIds(tree, pairing_template, pairing_id, return_counts) ==
    /\ reducer_call' = [op |-> "valid_answer_ids", tree |-> tree,
                        pairing_template |-> pairing_template,
                        pairing_id |-> pairing_id, return_counts |-> return_counts]
    /\ returned' = valid_answer_ids(relation_types, permutations, tree,
                                    pairing_template, pairing_id, return_counts)
    /\ UNCHANGED <<permutations, relation_types, genericVars, searchVars,
                 forestVars, antiFactualVars>>

\* The pairing template is one of the tree's, as ForestTransform._all_pairings
\* and RelationalTransform pass it.
ValidAnswerIdsStep ==
    /\ reducer_call = None
    /\ NoForestTransform
    /\ \E tree \in AnswerTrees :
          \E i \in DOMAIN tree : ValidAnswerIds(tree, tree[i], PairingId, TRUE)

NextAnswers == LoadRuleStep \/ ValidAnswerIdsStep \/ TakeResult

SpecAnswers == InitTemplates /\ [][NextAnswers]_vars

\* The elements of a list.
Range(list) == {list[i] : i \in DOMAIN list}

\* The tree and the rule of the example: (A, r1, B), (B, r2, C) and a rule
\* for (r1, r2, Case ONE) that keeps the order.
ChainTree ==
    << [source_id |-> "A", relation_type |-> "r1", target_id |-> "B"],
       [source_id |-> "B", relation_type |-> "r2", target_id |-> "C"] >>
ChainLink == [r1_type |-> "r1", r2_type |-> "r2", case |-> "ONE"]
ChainCall ==
    /\ reducer_call # None
    /\ reducer_call.op = "valid_answer_ids"
    /\ reducer_call.tree = ChainTree
    /\ reducer_call.pairing_template = ChainTree[1]
    /\ reducer_call.pairing_id = "A"
    /\ ChainLink \in DOMAIN permutations
    /\ permutations[ChainLink].order = "MAINTAIN"
    /\ permutations[ChainLink].relation_type \in relation_types

sub_list(list, kept) ==
    LET upto[i \in 0..Len(list)] ==
            IF i = 0 THEN << >>
            ELSE IF i \in kept THEN Append(upto[i - 1], list[i])
            ELSE upto[i - 1]
    IN  upto[Len(list)]

\* The valid poly-trees all of whose templates are templates of the tree.
SubTrees(tree) ==
    {t \in {sub_list(tree, kept) : kept \in SUBSET DOMAIN tree} : valid_tree(t)}

\* The answer ids of a result of valid_answer_ids with hop counts.
answer_ids(result) == {result.answers[i][1] : i \in DOMAIN result.answers}

\* Whether the call on the tree gives back every answer id that the same
\* call on any of its sub-trees gives, and does not fail.
MonotoneAtCall ==
    /\ ~returned.raised
    /\ \A t \in SubTrees(reducer_call.tree) :
          LET r == valid_answer_ids(relation_types, permutations, t,
                                    reducer_call.pairing_template,
                                    reducer_call.pairing_id, TRUE)
          IN  ~r.raised => answer_ids(r) \subseteq answer_ids(returned)

Cat == "t1"
Feline == "t2"
Mammal == "t3"

\* The chain (A, r1, B), (B, r2, C) and the seed of its two ends.
ScenarioTree ==
    << [source_id |-> "A", relation_type |-> "r1", target_id |-> "B"],
       [source_id |-> "B", relation_type |-> "r2", target_id |-> "C"] >>
ScenarioSeed == [v \in {"A", "C"} |-> IF v = "A" THEN Cat ELSE Mammal]

\* The rows of ConceptNet frames loaded for both relation types.
ScenarioAssertions ==
    {a \in [source : Terms, relation_type : RelationTypes, target : Terms] :
        a.source # a.target}
ScenarioDatabases ==
    {db \in SUBSET ScenarioAssertions : Cardinality(db) <= MaxAssertions}

\* A BeamSearch object over some frames of the two relation types.
InitScenario ==
    /\ permutations = EmptyPermutations
    /\ returned = None
    /\ case_links = << >>
    /\ built = None
    /\ beam_search \in [db : ScenarioDatabases, method : Methods,
                        protocol : BeamSearchProtocol, top_k : 0..MaxTopK]
    /\ search_call = None
    /\ search_outcome = None
    /\ relation_types = RelationTypes
    /\ reducer_call = None
    /\ NoForestTransform

\* The chain is searched with no anti-factual variable, from either end's
\* template first.
ScenarioSearch ==
    \E tree \in {ScenarioTree, <<ScenarioTree[2], ScenarioTree[1]>>} :
        Search(tree, << >>, ScenarioSeed)

NextScenario == ScenarioSearch \/ Consume

SpecScenario == InitScenario /\ [][NextScenario]_vars

\* The two assertions of the example.
CatIsFeline == [source |-> Cat, relation_type |-> "r1", target |-> Feline]
FelineIsMammal == [source |-> Feline, relation_type |-> "r2", target |-> Mammal]

\* What the factual instantiator returns for B given A = cat.
QueryForB ==
    factual_query(beam_search.db, Query(ScenarioTree[1], "B", Cat))

\* C16: on the chain (A, r1, B), (B, r2, C) seeded with A = cat, C = mammal,
\* with no anti-factual variable: over exactly the assertions (cat r1 feline)
\* and (feline r2 mammal) BeamSearch yields exactly the mapping A = cat,
\* B = feline, C = mammal; whenever the query for B given A = cat returns
\* nothing, it yields no mapping and raises no error.
C16_ChainScenario ==
    search_call # None =>
        /\ beam_search.db = {CatIsFeline, FelineIsMammal} =>
              search_outcome =
                  Yielded({[v \in VarIds |-> IF v = "A" THEN Cat
                                             ELSE IF v = "B" THEN Feline ELSE Mammal]})
        /\ QueryForB = {} => search_outcome = Yielded({})

\* The search over exactly the two assertions has yielded its one mapping.
C16_Witness ==
    /\ search_call # None
    /\ beam_search.db = {CatIsFeline, FelineIsMammal}
    /\ Cardinality(search_outcome.yielded) = 1


(***************************************************************************)
(* transforms/forest.py: the anti-factual variables of an instantiation.   *)
(***************************************************************************)
\* The variable ids of the trees whose anti-factual sets are enumerated, and
\* their order as Python strings.
TreeVarIds == {"A", "B", "C", "D"}
var_rank(v) == IF v = "A" THEN 1 ELSE IF v = "B" THEN 2 ELSE IF v = "C" THEN 3 ELSE 4

\* sorted(ids)
RECURSIVE sorted_ids(_)
sorted_ids(ids) ==
    IF ids = {} THEN << >>
    ELSE LET first == CHOOSE v \in ids : \A u \in ids : var_rank(v) <= var_rank(u) IN
         <<first>> \o sorted_ids(ids \ {first})

\* itertools.combinations(options, k), as lists, in the order it yields them.
RECURSIVE combinations(_, _)
combinations(options, k) ==
    IF k = 0 THEN << << >> >>
    ELSE IF Len(options) < k THEN << >>
    ELSE LET with_head == combinations(Tail(options), k - 1)
         IN  [i \in DOMAIN with_head |-> <<Head(options)>> \o with_head[i]]
             \o combinations(Tail(options), k)

\* The loop "for k in range(len(options) + 1)" from k on.
RECURSIVE combinations_from(_, _)
combinations_from(options, k) ==
    IF k > Len(options) THEN << >>
    ELSE combinations(options, k) \o combinations_from(options, k + 1)

\* ForestTransform._all_anti_factual_ids that leaves the answer variable
\* among the options (a plausible slip).
all_anti_factual_ids_with_answer(tree, data) ==
    combinations_from(sorted_ids(unique_variable_ids(tree) \ {data.pairing[1]}), 0)

\* ForestTransform._all_anti_factual_ids: the lists it yields, in order.
all_anti_factual_ids(tree, data) ==
    combinations_from(
        sorted_ids(unique_variable_ids(tree) \ {data.pairing[1], data.answer_id}), 0)

\* The trees of the calls: the valid poly-trees over TreeVarIds, of one
\* relation type.
AntiFactualTrees ==
    {tree \in UNION {[1..n -> {t \in [source_id : TreeVarIds,
                                    relation_type : LoadedRelationTypes,
                                    target_id : TreeVarIds] :
                                  t.source_id # t.target_id}] :
                        n \in 1..(Cardinality(TreeVarIds) - 1)} :
        valid_tree(tree)}

\* The InstantiationData of _all_pairings, as far as the call reads it: the
\* pairing (variable, term) and the answer variable, two variables of the tree.
PairingData(tree) ==
    {d \in [pairing : unique_variable_ids(tree) \X {"t1"},
             answer_id : unique_variable_ids(tree)] :
        d.answer_id # d.pairing[1]}

InitAntiFactual ==
    /\ permutations = EmptyPermutations
    /\ returned = None
    /\ case_links = << >>
    /\ built = None
    /\ beam_search = None
    /\ search_call = None
    /\ search_outcome = None
    /\ relation_types = RelationTypes
    /\ reducer_call = None
    /\ NoForestTransform

\* One call of ForestTransform._all_anti_factual_ids(tree, data), consumed
\* to its end.
AllAntiFactualIds(tree, data) ==
    /\ anti_factual_call' = [tree |-> tree, data |-> data]
    /\ anti_factual_lists' = all_anti_factual_ids(tree, data)
    /\ UNCHANGED <<reducerVars, genericVars, searchVars, templateVars, forestVars>>

AllAntiFactualIdsStep ==
    /\ anti_factual_call = None
    /\ \E tree \in AntiFactualTrees :
          \E data \in PairingData(tree) : AllAntiFactualIds(tree, data)

\* The caller has gone through the lists.
AntiFactualDone ==
    /\ anti_factual_call # None
    /\ anti_factual_call' = None
    /\ anti_factual_lists' = << >>
    /\ UNCHANGED <<reducerVars, genericVars, searchVars, templateVars, forestVars>>

NextAntiFactual == AllAntiFactualIdsStep \/ AntiFactualDone

SpecAntiFactual == InitAntiFactual /\ [][NextAntiFactual]_vars

\* The variables left once the pairing and the answer variable are set aside.
RemainingIds ==
    unique_variable_ids(anti_factual_call.tree)
        \ {anti_factual_call.data.pairing[1], anti_factual_call.data.answer_id}

\* 2^n
RECURSIVE two_to_the(_)
two_to_the(n) == IF n = 0 THEN 1 ELSE 2 * two_to_the(n - 1)

\* C17: the anti-factual lists enumerated for a tree and a pairing are the
\* subsets of the tree's variable ids minus the pairing and the answer
\* variable, each exactly once (2^m lists for m remaining variables, the
\* empty one included), and none holds the pairing or the answer variable.
C17_EverySubsetOnce ==
    anti_factual_call # None =>
        /\ \A ids \in SUBSET RemainingIds :
              Cardinality({i \in DOMAIN anti_factual_lists :
                              /\ Range(anti_factual_lists[i]) = ids
                              /\ Len(anti_factual_lists[i]) = Cardinality(ids)}) = 1
        /\ Len(anti_factual_lists) = two_to_the(Cardinality(RemainingIds))
        /\ \A i \in DOMAIN anti_factual_lists :
              /\ anti_factual_call.data.pairing[1] \notin Range(anti_factual_lists[i])
              /\ anti_factual_call.data.answer_id \notin Range(anti_factual_lists[i])

\* A tree of four variables, paired at B and answered at C: the four subsets
\* of {A, D}, in the order of the enumeration.
C17_Witness ==
    /\ anti_factual_call # None
    /\ anti_factual_call.data.pairing[1] = "B"
    /\ anti_factual_call.data.answer_id = "C"
    /\ anti_factual_lists = << << >>, <<"A">>, <<"D">>, <<"A", "D">> >>


(***************************************************************************)
(* transforms/forest.py, base/instantiation.py, base/qa.py,                *)
(* commands/generate/forest.py: the ForestTransform, one call after        *)
(* another on one object.                                                  *)
(***************************************************************************)
\* The identifiers one ForestTransform may have issued when a call starts.
MaxDataIds == 2

\* InstantiationData.reasoning_hops when nothing sets it.
UnknownHops == -1

\* The term of a free variable of a QA pairing template (Python None).
NoTerm == "None"

\* TermFormatter.format (ConceptNet.format): a term of the QA data becomes
\* the lower-case term of the ConceptNet frames; a term already in that form
\* stays as it is.
format(term) ==
    IF term = "T1" THEN "t1"
    ELSE IF term = "T2" THEN "t2"
    ELSE IF term = "T3" THEN "t3"
    ELSE term

\* f"I{n}"
identifier(n) == <<"I", n>>

\* The concatenation of a list of lists.
RECURSIVE concat(_)
concat(lists) == IF lists = << >> THEN << >> ELSE Head(lists) \o concat(Tail(lists))

\* The orders a set can be walked in.
Orderings(set) ==
    {order \in [1..Cardinality(set) -> set] :
        \A i, j \in DOMAIN order : i # j => order[i] # order[j]}

\* ForestTransform._find_pairings
find_pairings(template, qa_data) ==
    concat([i \in DOMAIN qa_data.pairing_templates |->
        LET qa_template == qa_data.pairing_templates[i] IN
        IF qa_template.relation_type # template.relation_type THEN << >>
        ELSE (IF qa_template.source_term # NoTerm
              THEN << [pairing |-> <<template.source_id, qa_template.source_term>>,
                       qa_template |-> qa_template] >>
              ELSE << >>)
             \o
             (IF qa_template.target_term # NoTerm
              THEN << [pairing |-> <<template.target_id, qa_template.target_term>>,
                       qa_template |-> qa_template] >>
              ELSE << >>)])

\* The answers of one pairing in ForestTransform._all_pairings: every other
\* variable of the tree, walked in some order, or what the Reducer returns.
answers_of(self, types, perms, tree, template, pairing, order) ==
    IF ~self.reducer
    THEN Answered(SelectSeq(order,
             LAMBDA v : v \in unique_variable_ids(tree) \ {pairing[1]}))
    ELSE valid_answer_ids(types, perms, tree, template, pairing[1], FALSE)

\* The InstantiationData of ForestTransform._all_pairings for the pairings
\* found and the answers of each, or the error of the Reducer.
pairing_data_of(found, answers) ==
    [raised |-> \E i \in DOMAIN found : answers[i].raised,
     data |-> concat([i \in DOMAIN found |->
                 [j \in DOMAIN answers[i].answers |->
                     [pairing_template |-> found[i].template,
                      pairing |-> found[i].pairing,
                      qa_template |-> found[i].qa_template,
                      answer_id |-> answers[i].answers[j],
                      reasoning_hops |-> UnknownHops]]])]

\* The answers of each pairing found, in ForestTransform._all_pairings.
answers_of_each(self, types, perms, tree, found, order) ==
    pairing_data_of(found,
        [i \in DOMAIN found |->
            answers_of(self, types, perms, tree, found[i].template,
                       found[i].pairing, order)])

\* ForestTransform._all_pairings, consumed whole: the InstantiationData it
\* yields, or the error of the Reducer.
all_pairings(self, types, perms, tree, qa_data, order) ==
    answers_of_each(self, types, perms, tree,
        concat([k \in DOMAIN tree |->
            [i \in DOMAIN find_pairings(tree[k], qa_data) |->
                [template |-> tree[k],
                 pairing |-> find_pairings(tree[k], qa_data)[i].pairing,
                 qa_template |-> find_pairings(tree[k], qa_data)[i].qa_template]]]),
        order)

\* The seeds of ForestTransform._instantiate_variables, in order: one per
\* answer choice in line, the correct answer's alone post hoc.
seed_maps(self, data, qa_data) ==
    LET seed_map(label_term) ==
            [v \in {data.answer_id, data.pairing[1]} |->
                IF v = data.pairing[1] THEN format(data.pairing[2])
                ELSE format(label_term)]
        choices == qa_data.answer_choices
    IN  IF self.protocol = "AF_IN_LINE"
        THEN [i \in DOMAIN choices |-> seed_map(choices[i][2])]
        ELSE LET i == CHOOSE i \in DOMAIN choices :
                          choices[i][1] = qa_data.correct_answer_label
             IN  << seed_map(choices[i][2]) >>

\* The lists of mappings the searches of one _instantiate_variables call can
\* yield, search after search, each in whatever order it yields.
RECURSIVE yield_orders(_, _)
yield_orders(outcomes, i) ==
    IF i > Len(outcomes) THEN { << >> }
    ELSE {first \o rest : first \in Orderings(outcomes[i].yielded),
                          rest \in yield_orders(outcomes, i + 1)}

\* InstantiationForest()
EmptyForest == [families |-> << >>, data_map |-> [id \in {} |-> None]]

\* ForestTransform._do_instantiate that numbers the data of one search from
\* the same counter value (a plausible slip).
new_data_same_id(data, anti_factual_ids, mappings, counter) ==
    [k \in DOMAIN mappings |->
        [identifier |-> identifier(counter),
         pairing_template |-> data.pairing_template,
         pairing |-> data.pairing,
         qa_template |-> data.qa_template,
         answer_id |-> data.answer_id,
         reasoning_hops |-> data.reasoning_hops,
         anti_factual_ids |-> anti_factual_ids,
         mapping |-> mappings[k]]]

\* ForestTransform._do_instantiate: the InstantiationData of the mappings
\* yielded, numbered from the counter on.
new_data(data, anti_factual_ids, mappings, counter) ==
    [k \in DOMAIN mappings |->
        [identifier |-> identifier(counter + k - 1),
         pairing_template |-> data.pairing_template,
         pairing |-> data.pairing,
         qa_template |-> data.qa_template,
         answer_id |-> data.answer_id,
         reasoning_hops |-> data.reasoning_hops,
         anti_factual_ids |-> anti_factual_ids,
         mapping |-> mappings[k]]]

\* The body of the innermost loop of ForestTransform.__call__ that creates
\* the family before it knows of any instantiation (a plausible slip).
add_to_forest_eagerly(the_forest, family, tree, full_data) ==
    LET ids == [k \in DOMAIN full_data |-> full_data[k].identifier]
        families == IF family = 0
                    THEN Append(the_forest.families, [tree |-> tree, data_ids |-> ids])
                    ELSE [the_forest.families EXCEPT ![family].data_ids = @ \o ids]
    IN  [families |-> families,
         data_map |-> [id \in DOMAIN the_forest.data_map \cup Range(ids) |->
                          IF id \in Range(ids)
                          THEN LET k == CHOOSE k \in DOMAIN full_data :
                                            full_data[k].identifier = id
                               IN  full_data[k]
                          ELSE the_forest.data_map[id]]]

\* The body of the innermost loop of ForestTransform.__call__, for every
\* InstantiationData of one _instantiate_variables call: the family is
\* created at the first one if the tree has none, each id is added to the
\* family and each InstantiationData to the data map.
add_to_forest(the_forest, family, tree, full_data) ==
    LET ids == [k \in DOMAIN full_data |-> full_data[k].identifier]
        families == IF full_data = << >> THEN the_forest.families
                    ELSE IF family = 0
                    THEN Append(the_forest.families, [tree |-> tree, data_ids |-> ids])
                    ELSE [the_forest.families EXCEPT ![family].data_ids = @ \o ids]
    IN  [families |-> families,
         data_map |-> [id \in DOMAIN the_forest.data_map \cup Range(ids) |->
                          IF id \in Range(ids)
                          THEN LET k == CHOOSE k \in DOMAIN full_data :
                                            full_data[k].identifier = id
                               IN  full_data[k]
                          ELSE the_forest.data_map[id]]]


\* The trees a call is given: a single template and a chain.
SingleTree == << [source_id |-> "A", relation_type |-> "r1", target_id |-> "B"] >>
ChainOfTwo ==
    << [source_id |-> "A", relation_type |-> "r1", target_id |-> "B"],
       [source_id |-> "B", relation_type |-> "r1", target_id |-> "C"] >>
ForestTreeLists ==
    { << >>, <<SingleTree>>, <<ChainOfTwo>>,
      <<SingleTree, SingleTree>>, <<SingleTree, ChainOfTwo>>,
      <<ChainOfTwo, ChainOfTwo>> }

\* The QA samples: two answer choices, either of them correct, and one
\* pairing template whose source is instantiated.
ForestQAData ==
    {[correct_answer_label |-> label,
      answer_choices |-> << <<"L1", "T2">>, <<"L2", "T3">> >>,
      pairing_templates |->
          << [relation_type |-> "r1", source_term |-> "T1", target_term |-> NoTerm] >>] :
        label \in {"L1", "L2"}}

\* The ConceptNet frames the BeamSearch of the transform is built over.
ForestRow(source, target) ==
    [source |-> source, relation_type |-> "r1", target |-> target]
ForestDatabases ==
    { {},
      {ForestRow("t1", "t2")},
      {ForestRow("t1", "t2"), ForestRow("t1", "t3")},
      {ForestRow("t1", "t2"), ForestRow("t2", "t3"), ForestRow("t2", "t4")} }

\* The registries of the Reducer of the transform: empty, or one rule that
\* reduces a chain of r1 to r1.
ForestRegistries ==
    { EmptyPermutations,
      [k \in {[r1_type |-> "r1", r2_type |-> "r1", case |-> "ONE"]} |->
          [relation_type |-> "r1", order |-> "MAINTAIN"]] }

\* commands/generate/forest.py: the Reducer is loaded unless it is ignored,
\* the BeamSearch and the ForestTransform get the same protocol.
InitForest ==
    /\ forest_transform \in [reducer : BOOLEAN, protocol : BeamSearchProtocol]
    /\ permutations \in IF forest_transform.reducer
                        THEN ForestRegistries ELSE {EmptyPermutations}
    /\ relation_types = RelationTypes
    /\ beam_search \in {[db |-> db, method |-> "SAME_RELATION",
                         protocol |-> forest_transform.protocol, top_k |-> 0] :
                           db \in ForestDatabases}
    /\ data_id_counter = 0
    /\ forest = None
    /\ transform_call = None
    /\ returned = None
    /\ case_links = << >>
    /\ built = None
    /\ search_call = None
    /\ search_outcome = None
    /\ reducer_call = None
    /\ anti_factual_call = None
    /\ anti_factual_lists = << >>

forestFixed ==
    <<forest_transform, permutations, relation_types, beam_search, returned,
      genericVars, search_call, search_outcome, reducer_call, antiFactualVars>>

\* ForestTransform.__call__(trees, qa_data) begins: an empty forest.
Call(trees, qa_data) ==
    /\ transform_call = None
    /\ data_id_counter < MaxDataIds
    /\ forest' = EmptyForest
    /\ transform_call' = [trees |-> trees, qa_data |-> qa_data, tree_index |-> 0,
                          family |-> 0, pairings |-> << >>,
                          pairing_data |-> None, anti_factual_lists |-> << >>]
    /\ UNCHANGED <<data_id_counter, forestFixed>>

\* "for tree in trees": the next tree, with no family yet and the pairings
\* given to go through; the call ends with the error of the Reducer if it
\* raised.
StartTree(all) ==
    /\ IF all.raised
       THEN transform_call' = None /\ forest' = None
       ELSE /\ transform_call' =
                   [transform_call EXCEPT !.tree_index = @ + 1,
                                          !.family = 0,
                                          !.pairings = all.data,
                                          !.pairing_data = None]
            /\ UNCHANGED forest
    /\ UNCHANGED <<data_id_counter, forestFixed>>

\* "for tree in trees" with the pairings of ForestTransform._all_pairings.
NextTree ==
    /\ transform_call # None
    /\ transform_call.pairings = << >>
    /\ transform_call.anti_factual_lists = << >>
    /\ transform_call.tree_index < Len(transform_call.trees)
    /\ \E order \in Orderings(VarIds) :
          StartTree(all_pairings(forest_transform, relation_types, permutations,
                                 transform_call.trees[transform_call.tree_index + 1],
                                 transform_call.qa_data, order))

\* "for pairing_data in self.pairing_filter(...)": the filter lets the next
\* pairing through, and its anti-factual lists are to go through.
KeepPairing ==
    /\ transform_call # None
    /\ transform_call.anti_factual_lists = << >>
    /\ transform_call.pairings # << >>
    /\ LET tree == transform_call.trees[transform_call.tree_index]
           data == Head(transform_call.pairings)
       IN  transform_call' =
               [transform_call EXCEPT !.pairings = Tail(@),
                                      !.pairing_data = data,
                                      !.anti_factual_lists =
                                          all_anti_factual_ids(tree, data)]
    /\ UNCHANGED <<data_id_counter, forest, forestFixed>>

\* The pairing filter drops the next pairing.
DropPairing ==
    /\ transform_call # None
    /\ transform_call.anti_factual_lists = << >>
    /\ transform_call.pairings # << >>
    /\ transform_call' = [transform_call EXCEPT !.pairings = Tail(@)]
    /\ UNCHANGED <<data_id_counter, forest, forestFixed>>

\* "for anti_factual_ids in self.anti_factual_filter(...)": the filter lets
\* the next list through and the inner loop runs over everything
\* _instantiate_variables yields for it; the call ends with the error of a
\* search if one raises.
Instantiate ==
    /\ transform_call # None
    /\ transform_call.anti_factual_lists # << >>
    /\ LET tree == transform_call.trees[transform_call.tree_index]
           data == transform_call.pairing_data
           anti_factual_ids == Head(transform_call.anti_factual_lists)
           seeds == seed_maps(forest_transform, data, transform_call.qa_data)
           outcomes == [i \in DOMAIN seeds |->
                           BeamSearch(beam_search, tree, anti_factual_ids, seeds[i])]
       IN  IF \E i \in DOMAIN outcomes : outcomes[i].error # NoError
           THEN /\ transform_call' = None
                /\ forest' = None
                /\ UNCHANGED data_id_counter
           ELSE \E mappings \in yield_orders(outcomes, 1) :
                  LET full_data == new_data(data, anti_factual_ids, mappings,
                                            data_id_counter)
                  IN  /\ forest' = add_to_forest(forest, transform_call.family,
                                                 tree, full_data)
                      /\ data_id_counter' = data_id_counter + Len(full_data)
                      /\ transform_call' =
                             [transform_call EXCEPT
                                 !.anti_factual_lists = Tail(@),
                                 !.family = IF full_data = << >> THEN @
                                            ELSE IF @ = 0
                                            THEN Len(forest.families) + 1
                                            ELSE @]
    /\ UNCHANGED forestFixed

\* The anti-factual filter drops the next list.
DropAntiFactualIds ==
    /\ transform_call # None
    /\ transform_call.anti_factual_lists # << >>
    /\ transform_call' = [transform_call EXCEPT !.anti_factual_lists = Tail(@)]
    /\ UNCHANGED <<data_id_counter, forest, forestFixed>>

\* "return forest": the caller has the forest, the transform its counter.
Return ==
    /\ transform_call # None
    /\ transform_call.pairings = << >>
    /\ transform_call.anti_factual_lists = << >>
    /\ transform_call.tree_index = Len(transform_call.trees)
    /\ transform_call' = None
    /\ UNCHANGED <<data_id_counter, forest, forestFixed>>

CallStep ==
    /\ transform_call = None
    /\ \E trees \in ForestTreeLists, qa_data \in ForestQAData : Call(trees, qa_data)

NextForest ==
    \/ CallStep
    \/ NextTree
    \/ KeepPairing
    \/ DropPairing
    \/ Instantiate
    \/ DropAntiFactualIds
    \/ Return

SpecForest == InitForest /\ [][NextForest]_vars


\* The ids the families of the forest list, family after family.
listed_ids ==
    concat([i \in DOMAIN forest.families |-> forest.families[i].data_ids])

\* C18, in every state of a call and of the forest it returns: no family has
\* an empty id list, there are no more families than trees gone through, and
\* the tree being gone through has a family exactly when the last family of
\* the forest is its own.
C18_FamiliesState ==
    forest # None =>
        /\ \A i \in DOMAIN forest.families : forest.families[i].data_ids # << >>
        /\ transform_call # None =>
              /\ Len(forest.families) <= transform_call.tree_index
              /\ transform_call.family \in {0, Len(forest.families)}
              /\ transform_call.family # 0 =>
                    forest.families[transform_call.family].tree =
                        transform_call.trees[transform_call.tree_index]

\* C18, in every step that stays within one tree of a call: a family is
\* added exactly when the step produces the first InstantiationData of the
\* tree, at most one is added, it is the tree's, and whatever the step
\* produces is listed by the tree's family and by no other.
C18_FamiliesStep ==
    (/\ transform_call # None /\ transform_call' # None
     /\ transform_call'.tree_index = transform_call.tree_index
     /\ transform_call.tree_index > 0)
    => LET before == forest.families
           after == forest'.families
           produced == DOMAIN forest'.data_map \ DOMAIN forest.data_map
           had_family == transform_call.family # 0
       IN  /\ Len(after) \in {Len(before), Len(before) + 1}
           /\ Len(after) = Len(before) + 1 <=> (produced # {} /\ ~had_family)
           /\ \A i \in DOMAIN before :
                 /\ after[i].tree = before[i].tree
                 /\ i # Len(after) => after[i] = before[i]
           /\ produced # {} =>
                 /\ after[Len(after)].tree =
                        transform_call.trees[transform_call.tree_index]
                 /\ produced \subseteq Range(after[Len(after)].data_ids)

\* C18: in the forest of a ForestTransform call a family exists for a tree
\* if and only if an InstantiationData was produced for that tree; it is
\* created at the first one and never before, so no family is empty and no
\* tree occurrence has two.
C18_FamilyIffInstantiated == [](C18_FamiliesState) /\ [][C18_FamiliesStep]_vars

\* Both trees of a call gone through: the single template got no
\* instantiation and no family, the chain after it got the only family.
C18_Witness ==
    /\ transform_call # None
    /\ transform_call.trees = <<SingleTree, ChainOfTwo>>
    /\ transform_call.tree_index = 2
    /\ transform_call.pairings = << >>
    /\ transform_call.anti_factual_lists = << >>
    /\ Len(forest.families) = 1
    /\ forest.families[1].tree = ChainOfTwo
    /\ Len(forest.families[1].data_ids) >= 2

\* C19, in every state: the ids the families list are pairwise distinct (so
\* each is in one family only), they are the keys of the data map, each key
\* is the identifier of its InstantiationData, and each was issued below the
\* counter.
C19_IdsState ==
    forest # None =>
        /\ Cardinality(Range(listed_ids)) = Len(listed_ids)
        /\ Range(listed_ids) = DOMAIN forest.data_map
        /\ \A id \in DOMAIN forest.data_map :
              /\ forest.data_map[id].identifier = id
              /\ id \in {identifier(n) : n \in 0..(data_id_counter - 1)}

\* C19, in every step: the counter never goes back, and an identifier the
\* step issues is none of those the counter has passed, in this call or in
\* an earlier one.
C19_IdsStep ==
    /\ data_id_counter' >= data_id_counter
    /\ (forest # None /\ forest' # None /\ transform_call # None) =>
          \A id \in DOMAIN forest'.data_map \ DOMAIN forest.data_map :
              id \notin {identifier(n) : n \in 0..(data_id_counter - 1)}

\* C19: over the calls on one ForestTransform every InstantiationData gets
\* an identifier distinct from all those issued before; in one forest the
\* ids of the families are pairwise distinct, each in exactly one family,
\* and together they are the keys of the id-to-data map.
C19_IdentifiersUnique == [](C19_IdsState) /\ [][C19_IdsStep]_vars

\* The forest of a later call: it holds data, and the first identifier of the
\* transform, issued in an earlier call, is not among its keys.
C19_Witness ==
    /\ forest # None
    /\ Cardinality(DOMAIN forest.data_map) >= 2
    /\ identifier(0) \notin DOMAIN forest.data_map
    /\ Len(forest.families) = 2

\* The tree of the family that lists an id.
tree_of(id) ==
    LET i == CHOOSE i \in DOMAIN forest.families :
                 id \in Range(forest.families[i].data_ids)
    IN  forest.families[i].tree

\* C20: when a Reducer is configured, every InstantiationData of the forest
\* records in reasoning_hops a hop count at which the Reducer reached its
\* answer variable from the pairing variable (0 for the other endpoint of the
\* pairing template); -1 appears only when no Reducer is configured.
C20_HopsRecorded ==
    (forest # None /\ forest_transform.reducer) =>
        \A id \in DOMAIN forest.data_map :
            LET data == forest.data_map[id]
                counts == valid_answer_ids(relation_types, permutations, tree_of(id),
                                           data.pairing_template, data.pairing[1], TRUE)
            IN  /\ data.reasoning_hops # UnknownHops
                /\ <<data.answer_id, data.reasoning_hops>> \in Range(counts.answers)


(***************************************************************************)
(* Claims about the case of a pair of templates and the order of the pair. *)
(***************************************************************************)
\* The cases whose endpoint equality holds between two templates.
endpoint_equalities(t1, t2) ==
    {c \in {"ONE", "TWO", "THREE", "FOUR"} :
        \/ c = "ONE" /\ t1.target_id = t2.source_id
        \/ c = "TWO" /\ t1.target_id = t2.target_id
        \/ c = "THREE" /\ t1.source_id = t2.source_id
        \/ c = "FOUR" /\ t1.source_id = t2.target_id}

\* C28: whenever from_templates returns without raising, the case is
\* unambiguous: for a non-ZERO result exactly one of the four endpoint
\* equalities holds and it is the one of the returned case, and for a ZERO
\* result none of the four holds.
C28_CaseIsUnambiguous ==
    (/\ reducer_call # None
     /\ reducer_call.op = "from_templates"
     /\ returned # ValueError)
    => endpoint_equalities(reducer_call.t1, reducer_call.t2) =
           (IF returned.case = "ZERO" THEN {} ELSE {returned.case})

\* A pair that shares its sources only: case THREE.
C28_Witness ==
    /\ reducer_call # None
    /\ reducer_call.op = "from_templates"
    /\ returned # ValueError
    /\ returned.case = "THREE"
    /\ endpoint_equalities(reducer_call.t1, reducer_call.t2) = {"THREE"}

\* The result of one reduce_templates call and of the call with the two
\* templates in the other order are the same.
same_in_either_order ==
    returned = reduce_templates(relation_types, permutations,
                                reducer_call.t2, reducer_call.t1)

\* The pair of the current reduce_templates call is linked (any non-ZERO
\* case).
linked_pair_call ==
    /\ reducer_call # None
    /\ reducer_call.op = "reduce_templates"
    /\ from_templates(reducer_call.t1, reducer_call.t2) # ValueError
    /\ from_templates(reducer_call.t1, reducer_call.t2).case # "ZERO"

\* C27 (as stated): for every registry and every pair of linked templates,
\* relation types equal or different, reduce_templates(t1, t2) and
\* reduce_templates(t2, t1) return the same result.
C27_OrderIndependent == linked_pair_call => same_in_either_order

\* C27 (amended): the two orders return the same result when the case-link
\* of the pair is not its own equivalent; when it is (equal relation types,
\* case TWO or THREE) both return None or both return a template of the same
\* relation type, the one with the endpoints of the other swapped.
C27_OrderIndependentUnlessSelfEquivalent ==
    linked_pair_call =>
        LET link == from_templates(reducer_call.t1, reducer_call.t2)
            other == reduce_templates(relation_types, permutations,
                                      reducer_call.t2, reducer_call.t1)
        IN  IF equivalent(link) # link THEN same_in_either_order
            ELSE IF returned = None THEN other = None
            ELSE /\ other \notin {None, ValueError}
                 /\ other.relation_type = returned.relation_type
                 /\ other.source_id = returned.target_id
                 /\ other.target_id = returned.source_id

\* A chain (case ONE) with two relation types, reduced through the rule
\* registered for the other order of the pair.
C27_Witness ==
    /\ linked_pair_call
    /\ reducer_call.t1.relation_type # reducer_call.t2.relation_type
    /\ from_templates(reducer_call.t1, reducer_call.t2).case = "ONE"
    /\ from_templates(reducer_call.t1, reducer_call.t2) \notin DOMAIN permutations
    /\ returned \notin {None, ValueError}
    /\ same_in_either_order


(***************************************************************************)
(* The recursion of Reducer._answer_ids_and_counts, call by call.          *)
(***************************************************************************)
\* What a call of _answer_ids_and_counts and the calls below it give: the
\* (id, count) pairs yielded and the calls made, in order, or the error.
NoTrace == [raised |-> FALSE, answers |-> << >>, frames |-> << >>]
FailedTrace == [raised |-> TRUE, answers |-> << >>, frames |-> << >>]

\* One call of _answer_ids_and_counts: its arguments and the number of
\* templates of the call that made it.
Frame(templates, pairing_template, count, caller_len) ==
    [templates |-> templates, pairing_template |-> pairing_template,
     count |-> count, caller_len |-> caller_len]

\* "yield from": what was yielded so far followed by what comes next; an
\* error ends everything.
then_trace(first, rest) ==
    IF first.raised THEN FailedTrace
    ELSE IF rest.raised THEN FailedTrace
    ELSE [raised |-> FALSE, answers |-> first.answers \o rest.answers,
          frames |-> first.frames \o rest.frames]

\* The direct answer of a call, as a trace that starts with the call.
enter_trace(frame, direct) ==
    IF direct.raised THEN FailedTrace
    ELSE [raised |-> FALSE, answers |-> direct.answers, frames |-> << frame >>]

RECURSIVE answer_trace(_, _, _, _, _, _, _)
RECURSIVE answer_trace_from(_, _, _, _, _, _, _)

\* The body of the loop that passes the count on as it is (a plausible slip).
follow_trace_same_count(types, perms, templates, pairing_template, pairing_id, count, template, new_template) ==
    IF new_template = ValueError THEN FailedTrace
    ELSE IF is_valid_match(new_template, pairing_template, pairing_id)
    THEN answer_trace(types, perms,
                      to_keep(templates, template, pairing_template, new_template),
                      new_template, pairing_id, count, Len(templates))
    ELSE NoTrace

\* The body of the loop of _answer_ids_and_counts for one template, given
\* the template it reduces to with the pairing template.
follow_trace(types, perms, templates, pairing_template, pairing_id, count, template, new_template) ==
    IF new_template = ValueError THEN FailedTrace
    ELSE IF is_valid_match(new_template, pairing_template, pairing_id)
    THEN answer_trace(types, perms,
                      to_keep(templates, template, pairing_template, new_template),
                      new_template, pairing_id, count + 1, Len(templates))
    ELSE NoTrace

\* The loop of _answer_ids_and_counts from the i-th template on.
answer_trace_from(types, perms, templates, pairing_template, pairing_id, count, i) ==
    IF i > Len(templates) THEN NoTrace
    ELSE then_trace(
             IF templates[i] = pairing_template THEN NoTrace
             ELSE follow_trace(types, perms, templates, pairing_template,
                               pairing_id, count, templates[i],
                               reduce_templates(types, perms, templates[i],
                                                pairing_template)),
             answer_trace_from(types, perms, templates, pairing_template,
                               pairing_id, count, i + 1))

\* Reducer._answer_ids_and_counts, consumed whole, with the calls it makes.
answer_trace(types, perms, templates, pairing_template, pairing_id, count, caller_len) ==
    then_trace(
        enter_trace(Frame(templates, pairing_template, count, caller_len),
                    direct_answer(templates, pairing_template, pairing_id, count)),
        answer_trace_from(types, perms, templates, pairing_template,
                          pairing_id, count, 1))

\* The rank of a template in the order the trees below list their templates.
template_rank(t) == 4 * var_rank(t.source_id) + var_rank(t.target_id)

\* The templates over TreeVarIds that join two variables.
HopTemplates ==
    {t \in [source_id : TreeVarIds, relation_type : RelationTypes,
            target_id : TreeVarIds] : t.source_id # t.target_id}

\* The trees of the calls: the valid poly-trees over TreeVarIds, of both
\* relation types, their templates listed by rank.
HopTrees ==
    {tree \in UNION {[1..n -> HopTemplates] : n \in 1..(Cardinality(TreeVarIds) - 1)} :
        /\ \A i, j \in DOMAIN tree :
              i < j => template_rank(tree[i]) < template_rank(tree[j])
        /\ valid_tree(tree)}

\* The registries of the calls: no rule, or one rule (io.load_reducer_csv).
HopRegistries ==
    {EmptyPermutations} \cup
    {register(EmptyPermutations, cl, red, FALSE).permutations :
        cl \in RelationalCaseLink, red \in Reduction}

\* The pairing templates of the calls on a tree: a template of the tree, as
\* ForestTransform._all_pairings and RelationalTransform pass it, or any
\* template that has the pairing variable at one end.
HopPairingTemplates(tree) ==
    Range(tree) \cup {t \in HopTemplates : PairingId \in {t.source_id, t.target_id}}

\* The Reducer is loaded.
InitHops ==
    /\ permutations \in HopRegistries
    /\ returned = None
    /\ case_links = << >>
    /\ built = None
    /\ beam_search = None
    /\ search_call = None
    /\ search_outcome = None
    /\ relation_types = RelationTypes
    /\ reducer_call = None
    /\ NoForestTransform

\* One call of Reducer.valid_answer_ids(tree, pairing_template, pairing_id,
\* return_counts=True), with the calls of _answer_ids_and_counts it made.
TraceAnswerIds(tree, pairing_template, trace) ==
    /\ reducer_call' = [op |-> "valid_answer_ids", tree |-> tree,
                        pairing_template |-> pairing_template,
                        pairing_id |-> PairingId, return_counts |-> TRUE,
                        frames |-> trace.frames]
    /\ returned' = IF trace.raised THEN Failed ELSE Answered(trace.answers)
    /\ UNCHANGED <<permutations, relation_types, genericVars, searchVars,
                 forestVars, antiFactualVars>>

TraceAnswerIdsStep ==
    /\ reducer_call = None
    /\ NoForestTransform
    /\ \E tree \in HopTrees :
          \E pairing_template \in HopPairingTemplates(tree) :
              TraceAnswerIds(tree, pairing_template,
                  answer_trace(relation_types, permutations, tree,
                               pairing_template, PairingId, 0, Len(tree) + 1))

NextHops == TraceAnswerIdsStep \/ TakeResult

SpecHops == InitHops /\ [][NextHops]_vars


\* The calls of _answer_ids_and_counts that a followed reduction made.
followed_frames ==
    {reducer_call.frames[k] : k \in {j \in DOMAIN reducer_call.frames :
                                        reducer_call.frames[j].count > 0}}

\* Every template that became the pairing template contains the pairing id
\* and has the relation type of the original pairing template.
pairing_kept ==
    \A f \in followed_frames :
        /\ reducer_call.pairing_id \in {f.pairing_template.source_id,
                                        f.pairing_template.target_id}
        /\ f.pairing_template.relation_type =
               reducer_call.pairing_template.relation_type

\* Every followed reduction left fewer templates than there were, and every
\* hop count is at most the number of templates of the tree minus one.
list_shrinks ==
    /\ \A f \in followed_frames : Len(f.templates) < f.caller_len
    /\ \A i \in DOMAIN returned.answers :
          returned.answers[i][2] <= Len(reducer_call.tree) - 1

path_templates(tree, from, to) ==
    {k \in DOMAIN tree :
        to \notin reachable({from}, {{tree[j].source_id, tree[j].target_id} :
                                        j \in DOMAIN tree \ {k}})}

\* C30: for a valid poly-tree, a pairing template of the tree and a pairing
\* id that is one of its endpoints, valid_answer_ids does not fail and every
\* (answer id, hop count) it returns has an answer id that is a variable of
\* the tree other than the pairing id, whose path from the pairing variable
\* starts with the pairing template, and a hop count of the number of
\* templates on that path minus one; no answer id is returned twice, and the
\* other endpoint of the pairing template is returned with hop count 0.
C30_HopsArePathLengths ==
    (/\ reducer_call # None
     /\ in_list(reducer_call.pairing_template, reducer_call.tree)
     /\ reducer_call.pairing_id \in {reducer_call.pairing_template.source_id,
                                     reducer_call.pairing_template.target_id})
    => LET tree == reducer_call.tree
           pairing_template == reducer_call.pairing_template
           pairing_id == reducer_call.pairing_id
           answers == returned.answers
           other_end == IF pairing_id = pairing_template.source_id
                        THEN pairing_template.target_id
                        ELSE pairing_template.source_id
       IN  /\ ~returned.raised
           /\ \A i \in DOMAIN answers :
                 LET path == path_templates(tree, pairing_id, answers[i][1]) IN
                 /\ answers[i][1] \in unique_variable_ids(tree) \ {pairing_id}
                 /\ \E k \in path : tree[k] = pairing_template
                 /\ answers[i][2] = Cardinality(path) - 1
           /\ \A i, j \in DOMAIN answers : i # j => answers[i][1] # answers[j][1]
           /\ <<other_end, 0>> \in Range(answers)

\* A tree of three templates of which the pairing template's other end is
\* answered at hop 0, one more variable at hop 1 and the last variable not
\* at all.
C30_Witness ==
    /\ reducer_call # None
    /\ in_list(reducer_call.pairing_template, reducer_call.tree)
    /\ reducer_call.pairing_id \in {reducer_call.pairing_template.source_id,
                                    reducer_call.pairing_template.target_id}
    /\ Len(reducer_call.tree) = 3
    /\ ~returned.raised
    /\ Len(returned.answers) = 2
    /\ \E i \in DOMAIN returned.answers : returned.answers[i][2] = 1


(***************************************************************************)
(* components/search.py and components/sorter.py, call by call: the calls  *)
(* a run of BeamSearch makes on its sorter and the mappings it yields, in  *)
(* the order of the code, and the generator consumed one event at a time.  *)
(***************************************************************************)
\* The events of a run: a call on self.sorter, a yield, or the error that
\* ends the run.
NewCollection(variant) == [op |-> "new_collection", variant |-> variant]
AddQueryResult(result) == [op |-> "add_query_result", result |-> result]
SortCollection == [op |-> "sort_collection"]
Yield(mapping, order, base) == [op |-> "yield", mapping |-> mapping, order |-> order, base |-> base]
Raise(error) == [op |-> "raise", error |-> error]

\* SemanticDistanceSorter: the contributions of the open collection, their
\* count, and whether a collection is open (self.collection is not None).
ClosedSorter == [collection |-> << >>, count |-> 0, open |-> FALSE]

\* SemanticDistanceSorter.new_collection
new_collection(sorter) == [collection |-> << >>, count |-> 0, open |-> TRUE]

\* SemanticDistanceSorter.add_query_result
add_query_result(sorter, result) ==
    [sorter EXCEPT !.collection = Append(@, result), !.count = @ + 1]

\* What SemanticDistanceSorter.sort_collection leaves in the sorter.
after_sort_collection(sorter) == ClosedSorter

\* The sorter after one of the three calls.
sorter_after(sorter, event) ==
    IF event.op = "new_collection" THEN new_collection(sorter)
    ELSE IF event.op = "add_query_result" THEN add_query_result(sorter, event.result)
    ELSE after_sort_collection(sorter)

\* A session that is never closed (a plausible slip).
session_events_left_open(variant, results) ==
    <<NewCollection(variant)>> \o [i \in DOMAIN results |-> AddQueryResult(results[i])]

\* One session of the code: new_collection, one add_query_result for each
\* query made, then _clean_up's sort_collection.
session_events(variant, results) ==
    <<NewCollection(variant)>> \o [i \in DOMAIN results |-> AddQueryResult(results[i])]
        \o <<SortCollection>>

\* Entries in the order of their templates in tree.templates (the order in
\* which the dicts of the code were filled).
RECURSIVE by_template(_)
by_template(entries) ==
    IF entries = {} THEN << >>
    ELSE LET first == CHOOSE e \in entries : \A x \in entries : e.k <= x.k IN
         <<first>> \o by_template(entries \ {first})

\* The elements of a set one after the other (product() over sets of terms:
\* the order is the one the sets happen to have).
RECURSIVE in_some_order(_)
in_some_order(set) ==
    IF set = {} THEN << >>
    ELSE LET first == CHOOSE e \in set : TRUE IN
         <<first>> \o in_some_order(set \ {first})

\* The InstantiatorVariant a frontier variable's session is opened with.
frontier_variant(self, anti_factual_ids, frontier_var) ==
    IF frontier_var \in anti_factual_ids /\ self.protocol = "AF_IN_LINE"
    THEN "ANTI_FACTUAL" ELSE "FACTUAL"

\* The session of one frontier variable in _query_frontier_variables: mine
\* are its entries, in order.
frontier_session(self, tree, anti_factual_ids, fixed_mapping, mine) ==
    session_events(frontier_variant(self, anti_factual_ids, mine[1].test),
                   [i \in DOMAIN mine |->
                       frontier_query(self, anti_factual_ids, mine[i].test,
                                      Query(tree[mine[i].k], mine[i].test,
                                            fixed_mapping[mine[i].partner]))])

\* The second loop of _query_frontier_variables: one session for each
\* frontier variable, in the order the variables were met.
RECURSIVE frontier_events(_, _, _, _, _)
frontier_events(self, tree, anti_factual_ids, fixed_mapping, entries) ==
    IF entries = {} THEN << >>
    ELSE LET first == CHOOSE e \in entries : \A x \in entries : e.k <= x.k
             mine == {e \in entries : e.test = first.test} IN
         frontier_session(self, tree, anti_factual_ids, fixed_mapping, by_template(mine))
             \o frontier_events(self, tree, anti_factual_ids, fixed_mapping,
                                entries \ mine)

\* The end of _do_inline when no frontier is left.
inline_leaf(self, tree, anti_factual_ids, fixed_mapping, instantiation_order) ==
    IF ~unique_terms(fixed_mapping) THEN << >>
    ELSE LET valid == is_valid_mapping(self, tree, anti_factual_ids,
                                       fixed_mapping, instantiation_order) IN
         IF valid = "KeyError" THEN <<Raise("KeyError")>>
         ELSE IF valid = "True"
         THEN <<Yield(fixed_mapping, instantiation_order, fixed_mapping)>>
         ELSE << >>

\* BeamSearch._do_inline, event by event.
RECURSIVE inline_events(_, _, _, _, _, _)
RECURSIVE inline_branches(_, _, _, _, _, _, _)
inline_branches(self, tree, anti_factual_ids, fixed_mapping, instantiation_order, count, candidate_mapping) ==
    IF DOMAIN candidate_mapping = {}
    THEN inline_leaf(self, tree, anti_factual_ids, fixed_mapping, instantiation_order)
    ELSE LET new_mappings ==
                 in_some_order({m \in {merged(fixed_mapping, i) :
                                          i \in instantiations(candidate_mapping)} :
                                   unique_terms(m)}) IN
         concat([j \in DOMAIN new_mappings |->
                    inline_events(self, tree, anti_factual_ids, new_mappings[j],
                                  merged(instantiation_order,
                                         [k \in DOMAIN candidate_mapping |-> count]),
                                  count + 1)])

inline_events(self, tree, anti_factual_ids, fixed_mapping, instantiation_order, count) ==
    IF frontier_conflict(frontier_entries(tree, fixed_mapping))
    THEN <<Raise("ValueError")>>
    ELSE frontier_events(self, tree, anti_factual_ids, fixed_mapping,
                         frontier_entries(tree, fixed_mapping))
         \o inline_branches(self, tree, anti_factual_ids, fixed_mapping,
                            instantiation_order, count,
                            query_frontier_variables(self, tree, anti_factual_ids,
                                                     fixed_mapping))

\* The replacement terms of an anti-factual variable taken from the factual
\* instantiator (a plausible slip).
factual_candidates(self, tree, mapping, af_var) ==
    clean_up(self, {factual_query(self.db, Query(tree[e.k], af_var, mapping[e.partner])) :
                       e \in af_partners(tree, af_var)})

\* af_mapping[af_var] of _do_post_hoc: what _clean_up keeps of the session
\* of an anti-factual variable.
post_hoc_candidates(self, tree, mapping, af_var) ==
    clean_up(self, {anti_factual_query(self.db, self.method,
                                       Query(tree[e.k], af_var, mapping[e.partner])) :
                       e \in af_partners(tree, af_var)})

\* The session of one anti-factual variable in _do_post_hoc: partners are
\* its templates, in order.
post_hoc_session(self, tree, mapping, af_var, partners) ==
    IF af_var \notin DOMAIN mapping
    THEN <<NewCollection("ANTI_FACTUAL"), Raise("KeyError")>>
    ELSE session_events("ANTI_FACTUAL",
                        [i \in DOMAIN partners |->
                            anti_factual_query(self.db, self.method,
                                               Query(tree[partners[i].k], af_var,
                                                     mapping[partners[i].partner]))])

\* The yields of _do_post_hoc for one factual mapping.
post_hoc_yields(self, tree, anti_factual_ids, mapping, order) ==
    IF anti_factual_ids = << >>
    THEN IF unique_terms(mapping) THEN <<Yield(mapping, order, mapping)>> ELSE << >>
    ELSE LET new_mappings ==
                 in_some_order(
                     {m \in {merged(mapping, i) :
                                i \in instantiations(
                                    [af_var \in Range(anti_factual_ids) |->
                                        post_hoc_candidates(self, tree, mapping, af_var)])} :
                         unique_terms(m)}) IN
         [j \in DOMAIN new_mappings |-> Yield(new_mappings[j], order, mapping)]

\* The body of _do_post_hoc's loop for one factual mapping.
post_hoc_of_events(self, tree, anti_factual_ids, mapping, order) ==
    concat([i \in DOMAIN anti_factual_ids |->
               post_hoc_session(self, tree, mapping, anti_factual_ids[i],
                                by_template(af_partners(tree, anti_factual_ids[i])))])
        \o post_hoc_yields(self, tree, anti_factual_ids, mapping, order)

\* _do_post_hoc over the events of the factual search it consumes: the body
\* of its loop runs where that search yields.
post_hoc_over(self, tree, anti_factual_ids, inner) ==
    concat([i \in DOMAIN inner |->
               IF inner[i].op = "yield"
               THEN post_hoc_of_events(self, tree, anti_factual_ids,
                                       inner[i].mapping, inner[i].order)
               ELSE <<inner[i]>>])

\* BeamSearch._do_post_hoc, event by event.
post_hoc_events(self, tree, anti_factual_ids, fixed_mapping, instantiation_order, count) ==
    post_hoc_over(self, tree, anti_factual_ids,
                  inline_events(self, tree, Range(anti_factual_ids), fixed_mapping,
                                instantiation_order, count))

\* A run ends at the first error raised.
until_raise(events) ==
    IF \A i \in DOMAIN events : events[i].op # "raise" THEN events
    ELSE SubSeq(events, 1,
                CHOOSE i \in DOMAIN events :
                    /\ events[i].op = "raise"
                    /\ \A j \in 1..(i - 1) : events[j].op # "raise")

\* BeamSearch.__call__, event by event.
BeamSearchEvents(self, tree, anti_factual_ids, seed_mapping) ==
    until_raise(
        IF self.protocol = "AF_IN_LINE"
        THEN inline_events(self, tree, Range(anti_factual_ids), seed_mapping,
                           [k \in DOMAIN seed_mapping |-> 0], 1)
        ELSE post_hoc_events(self, tree, anti_factual_ids, seed_mapping,
                             [k \in DOMAIN seed_mapping |-> 0], 1))

(***************************************************************************)
(* The generator of a call as a state machine: the caller resumes it, it   *)
(* calls the sorter, and hands control back when it yields, raises or      *)
(* ends; the caller may close it whenever it has control.                  *)
(***************************************************************************)
\* The rows of the ConceptNet frames of these runs.
BeamAssertions ==
    {a \in Assertions : <<a.source, a.target>> \in
        {<<"t1", "t3">>, <<"t1", "t4">>, <<"t2", "t3">>, <<"t2", "t4">>,
         <<"t3", "t4">>}}
BeamDatabases == SUBSET BeamAssertions

\* The templates of these runs: of the loaded relation type, from a variable
\* to a later one.
BeamTemplates ==
    {t \in HopTemplates : /\ t.relation_type \in LoadedRelationTypes
                          /\ var_rank(t.source_id) < var_rank(t.target_id)}

\* The trees of the calls: the valid poly-trees that hold the variables of
\* the seed, and two trees that are none: one with the same two variables
\* joined twice and one in two parts.
BeamTrees ==
    {tree \in HopTrees : /\ Range(tree) \subseteq BeamTemplates
                         /\ SeedIds \subseteq unique_variable_ids(tree)}
    \cup {<< [source_id |-> "A", relation_type |-> "r1", target_id |-> "C"],
             [source_id |-> "B", relation_type |-> "r1", target_id |-> "C"],
             [source_id |-> "A", relation_type |-> "r1", target_id |-> "C"] >>,
          << [source_id |-> "A", relation_type |-> "r1", target_id |-> "B"],
             [source_id |-> "C", relation_type |-> "r1", target_id |-> "D"] >>}

\* The seed of the calls.
BeamSeed == [v \in SeedIds |-> IF v = "A" THEN "t1" ELSE "t2"]

\* The anti-factual ids of a call on a tree: variables of the tree other
\* than the seed's, sorted (ForestTransform._all_anti_factual_ids).
BeamAntiFactualIds(tree) ==
    {ids \in UNION {[1..n -> unique_variable_ids(tree) \ SeedIds] : n \in 0..2} :
        \A i, j \in DOMAIN ids : i < j => var_rank(ids[i]) < var_rank(ids[j])}

InitBeam ==
    /\ permutations = EmptyPermutations
    /\ returned = None
    /\ case_links = << >>
    /\ built = None
    /\ beam_search \in [db : BeamDatabases, method : Methods,
                        protocol : BeamSearchProtocol, top_k : 0..MaxTopK,
                        sorter : {ClosedSorter}]
    /\ search_call = None
    /\ search_outcome = None
    /\ relation_types = RelationTypes
    /\ reducer_call = None
    /\ NoForestTransform

\* BeamSearch.__call__(tree, anti_factual_ids, seed_mapping): the generator
\* is made and nothing of it has run.
StartSearch(tree, anti_factual_ids, events) ==
    /\ search_call = None
    /\ search_call' = [tree |-> tree, anti_factual_ids |-> anti_factual_ids,
                       seed_mapping |-> BeamSeed, events |-> events,
                       at_caller |-> TRUE]
    /\ search_outcome' = Yielded({})
    /\ UNCHANGED <<beam_search, reducerVars, genericVars, templateVars,
                 forestVars, antiFactualVars>>

StartSearchStep ==
    \E tree \in BeamTrees : \E anti_factual_ids \in BeamAntiFactualIds(tree) :
        StartSearch(tree, anti_factual_ids,
                    BeamSearchEvents(beam_search, tree, anti_factual_ids, BeamSeed))

\* The running generator calls the sorter.
SorterCall ==
    /\ search_call # None
    /\ search_call.events # << >>
    /\ Head(search_call.events).op \in
           {"new_collection", "add_query_result", "sort_collection"}
    /\ beam_search' = [beam_search EXCEPT
                          !.sorter = sorter_after(@, Head(search_call.events))]
    /\ search_call' = [search_call EXCEPT !.events = Tail(@), !.at_caller = FALSE]
    /\ UNCHANGED <<search_outcome, reducerVars, genericVars, templateVars,
                 forestVars, antiFactualVars>>

\* The generator yields a mapping: the caller has control.
YieldMapping ==
    /\ search_call # None
    /\ search_call.events # << >>
    /\ Head(search_call.events).op = "yield"
    /\ search_outcome' =
           [search_outcome EXCEPT
               !.yielded = @ \cup {[mapping |-> Head(search_call.events).mapping,
                                    order |-> Head(search_call.events).order,
                                    base |-> Head(search_call.events).base]}]
    /\ search_call' = [search_call EXCEPT !.events = Tail(@), !.at_caller = TRUE]
    /\ UNCHANGED <<beam_search, reducerVars, genericVars, templateVars,
                 forestVars, antiFactualVars>>

\* The generator raises: the run is over.
RaiseError ==
    /\ search_call # None
    /\ search_call.events # << >>
    /\ Head(search_call.events).op = "raise"
    /\ search_outcome' = [search_outcome EXCEPT !.error = Head(search_call.events).error]
    /\ search_call' = [search_call EXCEPT !.events = << >>, !.at_caller = TRUE]
    /\ UNCHANGED <<beam_search, reducerVars, genericVars, templateVars,
                 forestVars, antiFactualVars>>

\* The generator is exhausted (StopIteration).
StopIteration ==
    /\ search_call # None
    /\ search_call.events = << >>
    /\ ~search_call.at_caller
    /\ search_call' = [search_call EXCEPT !.at_caller = TRUE]
    /\ UNCHANGED <<beam_search, search_outcome, reducerVars, genericVars,
                 templateVars, forestVars, antiFactualVars>>

\* The caller stops consuming, at the end of the run or before it.
CloseGenerator ==
    /\ search_call # None
    /\ search_call.at_caller
    /\ search_call' = None
    /\ search_outcome' = None
    /\ UNCHANGED <<beam_search, reducerVars, genericVars, templateVars,
                 forestVars, antiFactualVars>>

NextBeam ==
    \/ StartSearchStep
    \/ SorterCall
    \/ YieldMapping
    \/ RaiseError
    \/ StopIteration
    \/ CloseGenerator

SpecBeam == InitBeam /\ [][NextBeam]_vars


(***************************************************************************)
(* Claims about the sorter sessions and the yielded mappings of BeamSearch *)
(***************************************************************************)
\* The sorter of the BeamSearch object.
the_sorter == beam_search.sorter

\* C23: in a run of BeamSearch under either protocol, on a tree and the
\* anti-factual ids of its variables, the calls on the sorter are
\* new_collection, then one or more add_query_result, then sort_collection:
\* new_collection is called only when no session is open, add_query_result
\* and sort_collection only when one is, sort_collection only after at
\* least one contribution, and no session is open when a mapping is
\* yielded, whenever the caller has control, at the end of the run, or
\* after the caller has stopped consuming.
C23_SorterSessions ==
    /\ search_call = None => ~the_sorter.open
    /\ search_call # None =>
          /\ search_call.at_caller => ~the_sorter.open
          /\ the_sorter.count = Len(the_sorter.collection)
          /\ ~the_sorter.open => the_sorter.count = 0
          /\ search_call.events = << >> => ~the_sorter.open
          /\ search_call.events # << >> =>
                LET event == Head(search_call.events) IN
                /\ event.op = "new_collection" => ~the_sorter.open
                /\ event.op = "add_query_result" => the_sorter.open
                /\ event.op = "sort_collection" =>
                       the_sorter.open /\ the_sorter.count >= 1
                /\ event.op \in {"yield", "raise"} => ~the_sorter.open

\* The caller holds a yielded mapping and may stop here, while the run, if
\* resumed, opens another session.
C23_Witness ==
    /\ search_call # None
    /\ search_call.at_caller
    /\ search_outcome.yielded # {}
    /\ search_call.events # << >>
    /\ Head(search_call.events).op = "new_collection"

\* The frames hold the row that a template makes of the terms of a mapping.
attested(db, template, mapping) ==
    [source |-> mapping[template.source_id],
     relation_type |-> template.relation_type,
     target |-> mapping[template.target_id]] \in db

\* The endpoint of a template fixed after the other one.
later_fixed(template, order) ==
    IF order[template.source_id] > order[template.target_id]
    THEN template.source_id ELSE template.target_id

\* C24: under AF_IN_LINE, in every yielded mapping, for every template whose
\* endpoints were fixed at different depths: the pair of terms is not
\* attested when the endpoint fixed later is anti-factual, and attested
\* otherwise.
C24_LaterEndpointDecides ==
    (search_call # None /\ beam_search.protocol = "AF_IN_LINE") =>
        \A y \in search_outcome.yielded :
            \A k \in DOMAIN search_call.tree :
                LET template == search_call.tree[k] IN
                y.order[template.source_id] # y.order[template.target_id] =>
                    IF later_fixed(template, y.order) \in Range(search_call.anti_factual_ids)
                    THEN ~attested(beam_search.db, template, y.mapping)
                    ELSE attested(beam_search.db, template, y.mapping)

\* A yielded mapping with an anti-factual variable fixed after its partner
\* by one template and a factual variable fixed after its partner by
\* another.
C24_Witness ==
    /\ search_call # None
    /\ beam_search.protocol = "AF_IN_LINE"
    /\ \E y \in search_outcome.yielded :
          \E j, k \in DOMAIN search_call.tree :
              /\ y.order[search_call.tree[j].source_id] # y.order[search_call.tree[j].target_id]
              /\ y.order[search_call.tree[k].source_id] # y.order[search_call.tree[k].target_id]
              /\ later_fixed(search_call.tree[j], y.order)
                     \in Range(search_call.anti_factual_ids)
              /\ later_fixed(search_call.tree[k], y.order)
                     \notin Range(search_call.anti_factual_ids)

\* The mappings _do_post_hoc makes of a factual mapping: every choice of one
\* ranked anti-factual term for each anti-factual variable, queried with the
\* terms the factual mapping gives to the partners, that leaves the terms
\* different.
replacements(self, tree, anti_factual_ids, base) ==
    {m \in {merged(base, i) :
               i \in instantiations(
                   [v \in Range(anti_factual_ids) |->
                       clean_up(self,
                           {anti_factual_query(self.db, self.method,
                                Query(tree[e.k], v, base[e.partner])) :
                               e \in af_partners(tree, v)})])} :
        unique_terms(m)}

\* C25: under AF_POST_HOC, with anti-factual ids that are not variables of
\* the seed, every yielded mapping is a mapping that the search yields with
\* no anti-factual id, changed on the anti-factual variables only, each to
\* a term of the ranked result of the anti-factual queries made with the
\* base mapping's terms for the partners; a run consumed to its end yields,
\* for each base mapping, every such combination of different terms.
C25_PostHocOverridesBase ==
    (/\ search_call # None
     /\ beam_search.protocol = "AF_POST_HOC"
     /\ Range(search_call.anti_factual_ids) \cap DOMAIN search_call.seed_mapping = {})
    => LET tree == search_call.tree
           anti_factual_ids == search_call.anti_factual_ids
           bases == BeamSearch(beam_search, tree, << >>, search_call.seed_mapping).yielded
       IN  /\ \A y \in search_outcome.yielded :
                 /\ y.base \in bases
                 /\ DOMAIN y.mapping = DOMAIN y.base
                 /\ \A v \in DOMAIN y.base \ Range(anti_factual_ids) :
                        y.mapping[v] = y.base[v]
                 /\ y.mapping \in replacements(beam_search, tree, anti_factual_ids, y.base)
           /\ (search_call.events = << >> /\ search_outcome.error = NoError) =>
                  \A base \in bases :
                      {y.mapping : y \in {x \in search_outcome.yielded : x.base = base}}
                          = replacements(beam_search, tree, anti_factual_ids, base)

\* A yielded mapping that differs from its base mapping.
C25_Witness ==
    /\ search_call # None
    /\ beam_search.protocol = "AF_POST_HOC"
    /\ search_call.anti_factual_ids # << >>
    /\ search_call.events = << >>
    /\ \E y \in search_outcome.yielded : y.mapping # y.base

\* The templates of the call whose endpoints a yielded mapping fixed at the
\* same depth.
tied(y) ==
    {k \in DOMAIN search_call.tree :
        y.order[search_call.tree[k].source_id] = y.order[search_call.tree[k].target_id]}

\* C26: for every template whose endpoints were fixed at the same depth,
\* under AF_IN_LINE a yielded mapping has both endpoints anti-factual and
\* the pair not attested, or neither anti-factual and the pair attested (so
\* none is yielded with exactly one anti-factual endpoint); under
\* AF_POST_HOC the pair is attested in the factual mapping it was made of.
C26_TiebreakRule ==
    search_call # None =>
        \A y \in search_outcome.yielded : \A k \in tied(y) :
            LET template == search_call.tree[k]
                af == Range(search_call.anti_factual_ids) IN
            IF beam_search.protocol = "AF_IN_LINE"
            THEN \/ /\ {template.source_id, template.target_id} \subseteq af
                    /\ ~attested(beam_search.db, template, y.mapping)
                 \/ /\ {template.source_id, template.target_id} \cap af = {}
                    /\ attested(beam_search.db, template, y.mapping)
            ELSE attested(beam_search.db, template, y.base)

\* Under AF_IN_LINE a mapping was yielded for a tree with a template whose
\* endpoints, both anti-factual, were fixed at the same depth.
C26_Witness ==
    /\ search_call # None
    /\ beam_search.protocol = "AF_IN_LINE"
    /\ \E y \in search_outcome.yielded : \E k \in tied(y) :
          {search_call.tree[k].source_id, search_call.tree[k].target_id}
              \subseteq Range(search_call.anti_factual_ids)


(***************************************************************************)
(* transforms/relational.py, components/filter.py: RelationalTransform, as *)
(* commands/generate/relational.py makes and calls it for a tuple of       *)
(* relations and a generic tree.                                           *)
(***************************************************************************)
\* Errors of the Python run time.
TypeError == [tag |-> "TypeError"]
AttributeError == [tag |-> "AttributeError"]

\* A RelationalTree returned.
RelationalTreeOf(templates) == [tag |-> "RelationalTree", templates |-> templates]

\* The parameters of Reducer.valid_answer_ids and the attributes of a
\* GeneratorFilter.
valid_answer_ids_parameters == {"tree", "pairing_template", "pairing_id", "return_counts"}
GeneratorFilterAttributes == {"prob", "__call__"}

\* The keyword RelationalTransform.__call__ passes to valid_answer_ids and
\* the method it calls on the filter.
HopsKeyword == "return_reasoning_hops"
FilterMethod == "passes"

\* Probabilities and draws of random.random(), in halves: 0.0, 0.5 and 1.0.
Probabilities == {0, 1, 2}
RandomDraws == {0, 1}

\* "random.random() >= self.prob", the test of GeneratorFilter.
filter_test(prob, random) == random >= prob

\* The loop at lines 25-33: the i-th relation's type on the i-th template.
bind_relations(templates, relations) ==
    [k \in DOMAIN templates |->
        [source_id |-> templates[k].source, relation_type |-> relations[k],
         target_id |-> templates[k].target]]

\* The call at lines 42-44 with the keyword given.
hops_call(types, perms, new_tree, template, id_, keyword) ==
    IF keyword \notin valid_answer_ids_parameters THEN TypeError
    ELSE valid_answer_ids(types, perms, new_tree, template, id_, TRUE)

\* The calls of the loop at lines 40-45, in order.
hops_calls(types, perms, new_tree, keyword) ==
    concat([k \in DOMAIN new_tree |->
               <<hops_call(types, perms, new_tree, new_tree[k],
                           new_tree[k].source_id, keyword),
                 hops_call(types, perms, new_tree, new_tree[k],
                           new_tree[k].target_id, keyword)>>])

\* max() of a non-empty set of numbers.
max_of(numbers) == CHOOSE n \in numbers : \A m \in numbers : m <= n

\* "max([hops for _, hops in ids_and_hops])"
max_hops_of(ids_and_hops) ==
    max_of({ids_and_hops.answers[i][2] : i \in DOMAIN ids_and_hops.answers})

\* Line 46: the filter registered for the maximum, or the default filter
\* GeneratorFilter(0.0), asked whether it passes.
filter_passes(filters, max_hops, method, random) ==
    IF method \notin GeneratorFilterAttributes THEN AttributeError
    ELSE filter_test(IF max_hops \in DOMAIN filters THEN filters[max_hops] ELSE 0, random)

\* Lines 39-48, given the results of the calls of valid_answer_ids.
filter_by_hops(self, new_tree, results, random) ==
    IF results = << >> THEN ValueError
    ELSE IF results[1] = TypeError THEN TypeError
    ELSE IF \E i \in DOMAIN results : results[i].raised THEN ValueError
    ELSE IF \E i \in DOMAIN results : results[i].answers = << >> THEN ValueError
    ELSE IF filter_passes(self.filters,
                          max_of({max_hops_of(results[i]) : i \in DOMAIN results}),
                          FilterMethod, random) = AttributeError
    THEN AttributeError
    ELSE IF filter_passes(self.filters,
                          max_of({max_hops_of(results[i]) : i \in DOMAIN results}),
                          FilterMethod, random)
    THEN RelationalTreeOf(new_tree)
    ELSE None

\* RelationalTransform.__call__: a RelationalTree, None, or the error raised.
\* self.reducer is whether a Reducer is configured; the Reducer is types
\* and perms.
RelationalTransform(self, types, perms, tree, random) ==
    IF Len(tree) # Len(self.relations) THEN ValueError
    ELSE IF ~self.reducer THEN RelationalTreeOf(bind_relations(tree, self.relations))
    ELSE filter_by_hops(self, bind_relations(tree, self.relations),
                        hops_calls(types, perms, bind_relations(tree, self.relations),
                                   HopsKeyword),
                        random)

\* The generic trees of generic_trees_file: those the GenericTree builder
\* makes of one case-link between two relations.
GenericTrees ==
    {GenericTreeTransform(links).templates :
        links \in {l \in CaseLinkSequences :
                      /\ Len(l) = 1 /\ l[1].r1_id = "x1" /\ l[1].r2_id = "x2"
                      /\ GenericTreeTransform(l) # None
                      /\ GenericTreeTransform(l) # RecursionError}}

\* The tuples of relations of a transform: product(self.relations,
\* repeat=tree_size), for the tree sizes of the generic trees and one more.
RelationTuples ==
    UNION {[1..n -> RelationTypes] : n \in {Len(t) : t \in GenericTrees} \cup {1}}

\* The filters of filter_cfg.relational_probs, by the hop count their key
\* names.
FilterMaps == UNION {[keys -> Probabilities] : keys \in SUBSET {0, 1}}

\* The Reducer is loaded.
InitRelational ==
    /\ permutations \in HopRegistries
    /\ returned = None
    /\ case_links = << >>
    /\ built = None
    /\ beam_search = None
    /\ search_call = None
    /\ search_outcome = None
    /\ relation_types = RelationTypes
    /\ reducer_call = None
    /\ NoForestTransform

\* RelationalTransform(n_relations, reducer, filters)(tree), with what
\* random.random() gives if it is asked.
TransformTree(self, tree, random) ==
    /\ reducer_call = None
    /\ reducer_call' = [op |-> "RelationalTransform", self |-> self, tree |-> tree,
                        random |-> random]
    /\ returned' = RelationalTransform(self, relation_types, permutations, tree, random)
    /\ UNCHANGED <<permutations, relation_types, genericVars, searchVars,
                 forestVars, antiFactualVars>>

TransformTreeStep ==
    \E self \in [relations : RelationTuples, reducer : BOOLEAN, filters : FilterMaps] :
        \E tree \in GenericTrees, random \in RandomDraws :
            TransformTree(self, tree, random)

NextRelational == TransformTreeStep \/ TakeResult

SpecRelational == InitRelational /\ [][NextRelational]_vars

\* The largest hop count valid_answer_ids returns over the templates of a
\* tree and their two endpoints as pairing ids.
maximum_hops(types, perms, new_tree) ==
    max_of(UNION {{max_hops_of(valid_answer_ids(types, perms, new_tree, new_tree[k],
                                                id_, TRUE)) :
                      id_ \in {new_tree[k].source_id, new_tree[k].target_id}} :
                     k \in DOMAIN new_tree})

\* C21: RelationalTransform raises when the number of relations differs
\* from the number of templates; otherwise, without a Reducer it returns the
\* tree whose i-th template has the i-th relation's type and the i-th
\* generic template's source and target; with a Reducer it returns that
\* tree when the filter registered for the maximum hop count passes (always
\* when none is registered for it) and None when it does not.
C21_TransformFiltersByMaximumHops ==
    (reducer_call # None /\ reducer_call.op = "RelationalTransform") =>
        LET self == reducer_call.self
            tree == reducer_call.tree
            new_tree == bind_relations(tree, self.relations) IN
        IF Len(tree) # Len(self.relations) THEN returned = ValueError
        ELSE IF ~self.reducer THEN returned = RelationalTreeOf(new_tree)
        ELSE LET max_hops == maximum_hops(relation_types, permutations, new_tree) IN
             IF max_hops \notin DOMAIN self.filters
                    \/ filter_test(self.filters[max_hops], reducer_call.random)
             THEN returned = RelationalTreeOf(new_tree)
             ELSE returned = None

\* The part of C21 that holds: the error on a different number of relations,
\* and the tree returned when no Reducer is configured.
C21_BindsRelationsWithoutReducer ==
    (reducer_call # None /\ reducer_call.op = "RelationalTransform") =>
        LET self == reducer_call.self
            tree == reducer_call.tree IN
        IF Len(tree) # Len(self.relations) THEN returned = ValueError
        ELSE /\ ~self.reducer =>
                   /\ returned = RelationalTreeOf(bind_relations(tree, self.relations))
                   /\ \A k \in DOMAIN tree :
                         /\ returned.templates[k].source_id = tree[k].source
                         /\ returned.templates[k].target_id = tree[k].target
                         /\ returned.templates[k].relation_type = self.relations[k]
             /\ self.reducer => returned = TypeError


(***************************************************************************)
(* commands/generate/relational.py: Generate._transform, the loop over the *)
(* tuples of relations and the generic trees, the groups of the trees      *)
(* made, and _remove_isomorphic_trees (networkx is_isomorphic on the       *)
(* MultiDiGraphs of base/tree.py).                                         *)
(***************************************************************************)
\* RelationalTree.as_graph: the nodes, and for each ordered pair of nodes
\* with an edge the attributes of its edges, in the order they were added.
as_graph(tree) ==
    [nodes |-> unique_variable_ids(tree),
     adj |-> [pair \in {<<tree[k].source_id, tree[k].target_id>> : k \in DOMAIN tree} |->
                 LET joins(t) == t.source_id = pair[1] /\ t.target_id = pair[2]
                     edges == SelectSeq(tree, joins) IN
                 [key \in DOMAIN edges |-> [type_ |-> edges[key].relation_type]]]]

\* G.number_of_edges(u, v)
number_of_edges(graph, u, v) ==
    IF <<u, v>> \in DOMAIN graph.adj THEN Len(graph.adj[<<u, v>>]) ELSE 0

\* Edges matched whatever their types (a plausible slip).
em_any(e1, e2) == TRUE

\* Generate._em: the edges between two nodes match when they carry the same
\* set of relation types.
em(e1, e2) == {e1[key].type_ : key \in DOMAIN e1} = {e2[key].type_ : key \in DOMAIN e2}

\* nx.is_isomorphic(g1, g2, edge_match=self._em) on MultiDiGraphs: a
\* one-to-one map of the nodes that keeps the number of edges from any node
\* to any node, with matching edges.
is_isomorphic(g1, g2) ==
    /\ Cardinality(g1.nodes) = Cardinality(g2.nodes)
    /\ \E f \in [g1.nodes -> g2.nodes] :
          /\ \A u, v \in g1.nodes : u # v => f[u] # f[v]
          /\ \A u, v \in g1.nodes :
                /\ number_of_edges(g1, u, v) = number_of_edges(g2, f[u], f[v])
                /\ number_of_edges(g1, u, v) > 0 =>
                       em(g1.adj[<<u, v>>], g2.adj[<<f[u], f[v]>>])

\* The loop over one tree_group from tree i on.
RECURSIVE unique_trees_from(_, _, _)
unique_trees_from(tree_group, i, unique_trees) ==
    IF i > Len(tree_group) THEN unique_trees
    ELSE unique_trees_from(tree_group, i + 1,
             IF \E j \in DOMAIN unique_trees :
                    is_isomorphic(as_graph(tree_group[i]), as_graph(unique_trees[j]))
             THEN unique_trees
             ELSE Append(unique_trees, tree_group[i]))

\* Generate._remove_isomorphic_trees
remove_isomorphic_trees(grouped_trees) ==
    concat([g \in DOMAIN grouped_trees |-> unique_trees_from(grouped_trees[g], 1, << >>)])

\* "tuple(sorted(set([r.type_ for r in n_relations])))"
group_key(n_relations) == Range(n_relations)

\* "tree_groups.setdefault(group_key, []).append(new_tree)": the groups in
\* the order their keys came, each with its key.
add_to_group(tree_groups, key, new_tree) ==
    IF \E g \in DOMAIN tree_groups : tree_groups[g].key = key
    THEN [g \in DOMAIN tree_groups |->
             IF tree_groups[g].key = key
             THEN [tree_groups[g] EXCEPT !.trees = Append(@, new_tree)]
             ELSE tree_groups[g]]
    ELSE Append(tree_groups, [key |-> key, trees |-> <<new_tree>>])

\* product(self.relations, repeat=tree_size) for the two relations, each
\* tuple with every generic tree, in the order of the loops.
RelationProduct ==
    << <<"r1", "r1">>, <<"r1", "r2">>, <<"r2", "r1">>, <<"r2", "r2">> >>
transform_calls(trees) ==
    concat([n \in DOMAIN RelationProduct |->
               [t \in DOMAIN trees |-> [n_relations |-> RelationProduct[n],
                                         tree |-> trees[t]]]])

\* The lists of generic trees a run is loaded with: different trees, in any
\* order.
GenericTreeLists ==
    {list \in UNION {[1..n -> GenericTrees] : n \in 1..3} :
        \A i, j \in DOMAIN list : i # j => list[i] # list[j]}

\* The command is made: the Reducer is loaded with its rules.
InitGenerate ==
    /\ permutations \in ForestRegistries
    /\ returned = None
    /\ case_links = << >>
    /\ built = None
    /\ beam_search = None
    /\ search_call = None
    /\ search_outcome = None
    /\ relation_types = RelationTypes
    /\ reducer_call = None
    /\ NoForestTransform

\* Generate._transform begins: no filter is configured, and the Reducer is
\* ignored or not.
StartTransform(trees, ignore) ==
    /\ reducer_call = None
    /\ reducer_call' = [op |-> "Generate._transform", ignore |-> ignore,
                        calls |-> transform_calls(trees), made |-> << >>,
                        tree_groups |-> << >>]
    /\ returned' = None
    /\ UNCHANGED <<permutations, relation_types, genericVars, searchVars,
                 forestVars, antiFactualVars>>

StartTransformStep ==
    \E trees \in GenericTreeLists, ignore \in BOOLEAN : StartTransform(trees, ignore)

\* One round of the inner loop: the transform of the tuple on the next tree,
\* and the tree it returns put in its group.
TransformNext(new_tree) ==
    /\ new_tree \notin {None, TypeError, ValueError, AttributeError}
    /\ reducer_call' =
           [reducer_call EXCEPT
               !.calls = Tail(@),
               !.made = Append(@, new_tree.templates),
               !.tree_groups = add_to_group(@, group_key(Head(reducer_call.calls).n_relations),
                                            new_tree.templates)]
    /\ UNCHANGED <<returned, permutations, relation_types, genericVars, searchVars,
                 forestVars, antiFactualVars>>

\* The transform raises: the run is over.
TransformRaises(error) ==
    /\ error \in {TypeError, ValueError, AttributeError}
    /\ reducer_call' = [reducer_call EXCEPT !.calls = << >>]
    /\ returned' = error
    /\ UNCHANGED <<permutations, relation_types, genericVars, searchVars,
                 forestVars, antiFactualVars>>

TransformNextStep ==
    /\ reducer_call # None
    /\ returned = None
    /\ reducer_call.calls # << >>
    /\ \/ TransformNext(
              RelationalTransform([relations |-> Head(reducer_call.calls).n_relations,
                                   reducer |-> ~reducer_call.ignore,
                                   filters |-> << >>],
                                  relation_types, permutations,
                                  Head(reducer_call.calls).tree, 0))
       \/ TransformRaises(
              RelationalTransform([relations |-> Head(reducer_call.calls).n_relations,
                                   reducer |-> ~reducer_call.ignore,
                                   filters |-> << >>],
                                  relation_types, permutations,
                                  Head(reducer_call.calls).tree, 0))

\* "trees = list(self._remove_isomorphic_trees(tree_groups.values()))"
RemoveIsomorphicTrees ==
    /\ reducer_call # None
    /\ returned = None
    /\ reducer_call.calls = << >>
    /\ returned' = RelationalTreeOf(
           remove_isomorphic_trees([g \in DOMAIN reducer_call.tree_groups |->
                                       reducer_call.tree_groups[g].trees]))
    /\ UNCHANGED <<reducer_call, permutations, relation_types, genericVars,
                 searchVars, forestVars, antiFactualVars>>

\* The run is over and its result taken.
TakeTrees ==
    /\ reducer_call # None
    /\ returned # None
    /\ reducer_call' = None
    /\ returned' = None
    /\ UNCHANGED <<permutations, relation_types, genericVars, searchVars,
                 forestVars, antiFactualVars>>

NextGenerate ==
    \/ StartTransformStep
    \/ TransformNextStep
    \/ RemoveIsomorphicTrees
    \/ TakeTrees

SpecGenerate == InitGenerate /\ [][NextGenerate]_vars

\* Two trees are isomorphic as directed multigraphs with edges matched by
\* relation-type set: a one-to-one renaming of the variables of the one onto
\* those of the other under which, from any variable to any variable, they
\* have as many templates, of the same set of relation types.
isomorphic_trees(t1, t2) ==
    /\ Cardinality(unique_variable_ids(t1)) = Cardinality(unique_variable_ids(t2))
    /\ \E f \in [unique_variable_ids(t1) -> unique_variable_ids(t2)] :
          /\ \A u, v \in DOMAIN f : u # v => f[u] # f[v]
          /\ \A u, v \in DOMAIN f :
                LET from1 == {k \in DOMAIN t1 : t1[k].source_id = u /\ t1[k].target_id = v}
                    from2 == {k \in DOMAIN t2 : /\ t2[k].source_id = f[u]
                                                /\ t2[k].target_id = f[v]} IN
                /\ Cardinality(from1) = Cardinality(from2)
                /\ {t1[k].relation_type : k \in from1} = {t2[k].relation_type : k \in from2}

\* The run has made its trees, with no error, and removed the isomorphic
\* ones.
Deduplicated ==
    /\ reducer_call # None
    /\ reducer_call.op = "Generate._transform"
    /\ returned # None
    /\ returned \notin {TypeError, ValueError, AttributeError}

\* C22: after the isomorphic trees are removed, no two trees of the output
\* are isomorphic, every tree made is isomorphic to a tree of the output
\* that uses the same set of relation types, and of the trees made that are
\* isomorphic to one another the first made, and no other, is in the output.
C22_OneTreePerIsomorphismClass ==
    Deduplicated =>
        LET made == reducer_call.made
            output == returned.templates IN
        /\ \A i, j \in DOMAIN output :
               i # j => ~isomorphic_trees(output[i], output[j])
        /\ \A i \in DOMAIN made :
               \E j \in DOMAIN output :
                   /\ isomorphic_trees(made[i], output[j])
                   /\ {made[i][k].relation_type : k \in DOMAIN made[i]}
                          = {output[j][k].relation_type : k \in DOMAIN output[j]}
        /\ \A i \in DOMAIN made :
               (\E j \in DOMAIN output : output[j] = made[i])
                   <=> (\A h \in 1..(i - 1) : ~isomorphic_trees(made[h], made[i]))

\* Trees were made of which some were removed, one of them isomorphic to a
\* tree made with another tuple of relations, and more than one was kept in
\* one group.
C22_Witness ==
    /\ Deduplicated
    /\ Len(returned.templates) < Len(reducer_call.made)
    /\ \E i, j \in DOMAIN reducer_call.made :
          /\ i < j
          /\ isomorphic_trees(reducer_call.made[i], reducer_call.made[j])
          /\ [k \in DOMAIN reducer_call.made[i] |-> reducer_call.made[i][k].relation_type]
                 # [k \in DOMAIN reducer_call.made[j] |-> reducer_call.made[j][k].relation_type]
    /\ \E g \in DOMAIN reducer_call.tree_groups :
          Cardinality({j \in DOMAIN returned.templates :
                          returned.templates[j] \in Range(reducer_call.tree_groups[g].trees)}) > 1

====
